---- MODULE Spec2Model ----
(***************************************************************************)
(* Topic lifecycle, privilege and aggregation engine of the forum backend. *)
(*                                                                         *)
(* The keyed store is modelled as it is used: a hash per topic             *)
(* (topic:<tid>, a partial map field -> integer), sorted sets (a partial   *)
(* map member -> score per key) and a per-topic event log.  Every          *)
(* operation of the source is a function from a store to an outcome        *)
(* (the error thrown, or "ok") and the store it leaves behind; an action   *)
(* of the state machine is one whole call.  A call that throws leaves the  *)
(* store as it found it, so its outcome is read off the operation itself.  *)
(***************************************************************************)
EXTENDS Integers, Sequences, FiniteSets, TLC

VARIABLES
    topic,      \* tid -> hash topic:<tid> (field -> value); empty when the key is absent
    zset,       \* key -> sorted set (member -> score)
    events,     \* tid -> the topic's event log, oldest first
    category,   \* cid -> hash category:<cid>
    now,        \* Date.now()
    attached,   \* history: pids added to the topic and not removed since
    adds,       \* history: completed addPostToTopic calls
    removes,    \* history: completed removePostFromTopic calls
    stray,      \* history: some removePostFromTopic named a post that was not attached
    pending,    \* detached incrementFieldAndUpdateSortedSet runs (never awaited)
    proc        \* calls in flight: position and locals of each

vars == <<topic, zset, events, category, now, attached, adds, removes, stray, pending, proc>>
storeVars == <<topic, zset, events, category>>
postVars == <<attached, adds, removes, stray, pending, proc>>

-----------------------------------------------------------------------------
(* Bounds *)

MaxNow == 2         \* the clock runs 1..MaxNow
MaxEvents == 2      \* events kept over all topics; a call that would log one more is not taken
MaxPid == 3         \* posts 1..MaxPid
MaxPending == 2     \* detached counter updates in flight at once

Tids == {1, 2}
Cids == {1, 2}
Pids == 1..MaxPid

\* the literal 'system' that checkPinExpiry passes as uid; every other uid is a number
SystemUid == -1
Uids == 0..4
TypeOf(uid) == IF uid = SystemUid THEN "string" ELSE "number"

-----------------------------------------------------------------------------
(* Role and ACL oracle (external collaborators) *)

\* user.isAdministrator
IsAdministrator(uid) == uid = 1
\* user.isModerator(uid, cid): uid 2 moderates category 1 only
IsModerator(uid, cid) == uid = 2 /\ cid = 1
\* the accounttype field of user:<uid>
AccountType(uid) == IF uid = 3 THEN "instructor" ELSE "student"
\* Topics.getTopicTags
TopicTags(tid) == IF tid = 1 THEN {"hw"} ELSE {}
\* the creator of each topic
TopicOwner(tid) == IF tid = 1 THEN 4 ELSE 3

\* User.isInstructor
User_isInstructor(uid) ==
    IF TypeOf(uid) # "number" THEN FALSE ELSE AccountType(uid) = "instructor"

\* privileges.categories.isAdminOrMod
privsCategories_isAdminOrMod(cid, uid) ==
    IF uid <= 0 THEN FALSE ELSE IsAdministrator(uid) \/ IsModerator(uid, cid)

-----------------------------------------------------------------------------
(* Store primitives *)

\* the elements of a sequence
Elements(seq) == {seq[i] : i \in 1..Len(seq)}
Put(f, k, v) == [x \in (DOMAIN f) \cup {k} |-> IF x = k THEN v ELSE f[x]]
Del(f, k) == [x \in (DOMAIN f) \ {k} |-> f[x]]

CidKey(cid, suffix) == "cid:" \o ToString(cid) \o suffix
TidKey(tid, suffix) == "tid:" \o ToString(tid) \o suffix
CidUidKey(cid, uid) == "cid:" \o ToString(cid) \o ":uid:" \o ToString(uid) \o ":tids"
CidTagKey(cid, tag) == "cid:" \o ToString(cid) \o ":tag:" \o tag \o ":topics"

CidSuffixes == {":tids", ":tids:pinned", ":tids:posts", ":tids:votes", ":tids:views",
                ":tids:lastposttime", ":recent_tids"}
ZKeys ==
    {CidKey(c, s) : c \in Cids, s \in CidSuffixes}
    \cup {CidUidKey(c, TopicOwner(t)) : c \in Cids, t \in Tids}
    \cup {CidTagKey(c, g) : c \in Cids, g \in UNION {TopicTags(t) : t \in Tids}}
    \cup {TidKey(t, s) : t \in Tids, s \in {":posts", ":posts:votes", ":posters"}}
    \cup {"topics:posts", "topics:views"}

\* db.sortedSetAdd(key, score, member)
sortedSetAdd(z, key, score, member) == [z EXCEPT ![key] = Put(@, member, score)]
\* db.sortedSetRemove(key, member); db.sortedSetsRemove(keys, member)
sortedSetsRemove(z, keys, member) ==
    [k \in DOMAIN z |-> IF k \in keys THEN Del(z[k], member) ELSE z[k]]
sortedSetRemove(z, key, member) == sortedSetsRemove(z, {key}, member)
\* db.sortedSetAddBulk([[key, score, member], ...])
RECURSIVE sortedSetAddBulk(_, _)
sortedSetAddBulk(z, bulk) ==
    IF bulk = <<>> THEN z
    ELSE sortedSetAddBulk(sortedSetAdd(z, Head(bulk)[1], Head(bulk)[2], Head(bulk)[3]), Tail(bulk))
\* db.sortedSetIncrBy(key, by, member): a member that is absent starts from 0
sortedSetIncrBy(z, key, by, member) ==
    [z EXCEPT ![key] = Put(@, member, (IF member \in DOMAIN @ THEN @[member] ELSE 0) + by)]
\* db.sortedSetsRemoveRangeByScore([key], '-inf', max)
sortedSetRemoveRangeByScore(z, key, max) ==
    [z EXCEPT ![key] = [m \in {x \in DOMAIN @ : @[x] > max} |-> @[m]]]
\* db.getSortedSetRange(key, 0, -1): the members by ascending score, equal scores by member
RECURSIVE RangeOf(_)
RangeOf(f) ==
    IF DOMAIN f = {} THEN <<>>
    ELSE LET m == CHOOSE m \in DOMAIN f :
                    \A x \in DOMAIN f : f[m] < f[x] \/ (f[m] = f[x] /\ m <= x)
         IN <<m>> \o RangeOf(Del(f, m))
getSortedSetRange(z, key) == RangeOf(z[key])
\* db.sortedSetAdd(key, scores, members) with the index of each member as its score
RECURSIVE sortedSetAddIndexed(_, _, _, _)
sortedSetAddIndexed(z, key, members, i) ==
    IF i > Len(members) THEN z
    ELSE sortedSetAddIndexed(sortedSetAdd(z, key, i - 1, members[i]), key, members, i + 1)
\* db.sortedSetCard(key)
sortedSetCard(z, key) == Cardinality(DOMAIN z[key])
\* db.setObjectField / db.setObject on topic:<tid>
setTopicField(st, tid, field, value) ==
    [st EXCEPT !.topic[tid] = Put(@, field, value)]
\* db.deleteObjectField on topic:<tid>
deleteTopicField(st, tid, field) ==
    [st EXCEPT !.topic[tid] = Del(@, field)]
\* db.incrObjectFieldBy: an absent field counts from 0
IntField(obj, field) == IF field \in DOMAIN obj THEN obj[field] ELSE 0
incrObjectFieldBy(st, tid, field, by) ==
    [st EXCEPT !.topic[tid] = Put(@, field, IntField(@, field) + by)]

\* events.log losing the event
eventsLog_Dropped(st, tid, type, uid) == st

\* Topics.events.log(tid, {type, uid}): appends one event
eventsLog(st, tid, type, uid) ==
    [st EXCEPT !.events[tid] = Append(@, [type |-> type, uid |-> uid])]

-----------------------------------------------------------------------------
(* Field store adapter *)

\* Topics.getTopicData: null for a key that holds no hash
Exists(st, tid) == DOMAIN st.topic[tid] # {}
\* modifyTopic: integer fields are parsed, an absent one reads 0
Field(st, tid, field) == IntField(st.topic[tid], field)
\* modifyTopic: scheduled is derived from timestamp
Scheduled(st, tid) == Field(st, tid, "timestamp") > now
\* modifyTopic: votes = upvotes - downvotes
Votes(st, tid) == Field(st, tid, "upvotes") - Field(st, tid, "downvotes")

Store == [topic |-> topic, zset |-> zset, events |-> events, category |-> category]
\* the outcome of a call: the store it leaves, "ok" or the error it throws, the action
\* hooks it fired in order, and what it returns
Throw(st, err) == [st |-> st, out |-> err, hooks |-> <<>>, ret |-> <<>>]
Ok(st) == [st |-> st, out |-> "ok", hooks |-> <<>>, ret |-> <<>>]
\* plugins.hooks.fire of an action hook
Fire(r, hook) == [r EXCEPT !.hooks = Append(@, hook)]
Returning(r, ret) == [r EXCEPT !.ret = ret]

-----------------------------------------------------------------------------
(* Privilege resolver *)

\* privsTopics.isAdminOrMod
privsTopics_isAdminOrMod(st, tid, uid) ==
    IF uid <= 0 THEN FALSE
    ELSE privsCategories_isAdminOrMod(Field(st, tid, "cid"), uid)

-----------------------------------------------------------------------------
(* Lifecycle state machine: pin / unpin *)

StandardSuffixes == {":tids", ":tids:posts", ":tids:votes", ":tids:views"}

\* PinEffects with the pin branch leaving the topic in the standard indices
PinEffects_StaysListed(st, tid, uid, pin) ==
    LET cid == Field(st, tid, "cid")
        s1 == setTopicField(st, tid, "pinned", IF pin THEN 1 ELSE 0)
        s2 == eventsLog(s1, tid, IF pin THEN "pin" ELSE "unpin", uid)
    IN  IF pin
        THEN [s2 EXCEPT !.zset = sortedSetAdd(@, CidKey(cid, ":tids:pinned"), now, tid)]
        ELSE LET s3 == deleteTopicField(s2, tid, "pinExpiry")
             IN [s3 EXCEPT !.zset =
                    sortedSetAddBulk(
                        sortedSetRemove(@, CidKey(cid, ":tids:pinned"), tid),
                        << <<CidKey(cid, ":tids"), Field(st, tid, "lastposttime"), tid>>,
                           <<CidKey(cid, ":tids:posts"), Field(st, tid, "postcount"), tid>>,
                           <<CidKey(cid, ":tids:votes"), Votes(st, tid), tid>>,
                           <<CidKey(cid, ":tids:views"), Field(st, tid, "viewcount"), tid>> >>)]

\* PinEffects with the unpin branch forgetting to delete pinExpiry
PinEffects_KeepExpiry(st, tid, uid, pin) ==
    LET cid == Field(st, tid, "cid")
        s1 == setTopicField(st, tid, "pinned", IF pin THEN 1 ELSE 0)
        s2 == eventsLog(s1, tid, IF pin THEN "pin" ELSE "unpin", uid)
    IN  IF pin
        THEN [s2 EXCEPT !.zset =
                sortedSetsRemove(
                    sortedSetAdd(@, CidKey(cid, ":tids:pinned"), now, tid),
                    {CidKey(cid, s) : s \in StandardSuffixes}, tid)]
        ELSE [s2 EXCEPT !.zset =
                    sortedSetAddBulk(
                        sortedSetRemove(@, CidKey(cid, ":tids:pinned"), tid),
                        << <<CidKey(cid, ":tids"), Field(st, tid, "lastposttime"), tid>>,
                           <<CidKey(cid, ":tids:posts"), Field(st, tid, "postcount"), tid>>,
                           <<CidKey(cid, ":tids:votes"), Votes(st, tid), tid>>,
                           <<CidKey(cid, ":tids:views"), Field(st, tid, "viewcount"), tid>> >>)]

\* the effects togglePin issues together once its guards have passed
PinEffects(st, tid, uid, pin) ==
    LET cid == Field(st, tid, "cid")
        s1 == setTopicField(st, tid, "pinned", IF pin THEN 1 ELSE 0)
        s2 == eventsLog(s1, tid, IF pin THEN "pin" ELSE "unpin", uid)
    IN  IF pin
        THEN [s2 EXCEPT !.zset =
                sortedSetsRemove(
                    sortedSetAdd(@, CidKey(cid, ":tids:pinned"), now, tid),
                    {CidKey(cid, s) : s \in StandardSuffixes}, tid)]
        ELSE LET s3 == deleteTopicField(s2, tid, "pinExpiry")
             IN [s3 EXCEPT !.zset =
                    sortedSetAddBulk(
                        sortedSetRemove(@, CidKey(cid, ":tids:pinned"), tid),
                        << <<CidKey(cid, ":tids"), Field(st, tid, "lastposttime"), tid>>,
                           <<CidKey(cid, ":tids:posts"), Field(st, tid, "postcount"), tid>>,
                           <<CidKey(cid, ":tids:votes"), Votes(st, tid), tid>>,
                           <<CidKey(cid, ":tids:views"), Field(st, tid, "viewcount"), tid>> >>)]

\* togglePin without the instructor extension
togglePin_AdminOrModOnly(st, tid, uid, pin) ==
    IF TypeOf(uid) # "number" THEN Throw(st, "TypeError")
    ELSE IF ~Exists(st, tid) THEN Throw(st, "no-topic")
    ELSE IF Scheduled(st, tid) THEN Throw(st, "cant-pin-scheduled")
    ELSE IF uid # SystemUid /\ ~privsTopics_isAdminOrMod(st, tid, uid)
        THEN Throw(st, "no-privileges")
    ELSE Fire(Ok(PinEffects(st, tid, uid, pin)), "action:topic.pin")

\* togglePin with the authorization check moved before the scheduled check
togglePin_AuthFirst(st, tid, uid, pin) ==
    IF TypeOf(uid) # "number" THEN Throw(st, "TypeError")
    ELSE IF ~Exists(st, tid) THEN Throw(st, "no-topic")
    ELSE IF uid # SystemUid /\ ~privsTopics_isAdminOrMod(st, tid, uid) /\ ~User_isInstructor(uid)
        THEN Throw(st, "no-privileges")
    ELSE IF Scheduled(st, tid) THEN Throw(st, "cant-pin-scheduled")
    ELSE Fire(Ok(PinEffects(st, tid, uid, pin)), "action:topic.pin")

togglePin(st, tid, uid, pin) ==
    IF TypeOf(uid) # "number" THEN Throw(st, "TypeError")
    ELSE IF ~Exists(st, tid) THEN Throw(st, "no-topic")
    ELSE IF Scheduled(st, tid) THEN Throw(st, "cant-pin-scheduled")
    ELSE IF uid # SystemUid /\ ~privsTopics_isAdminOrMod(st, tid, uid) /\ ~User_isInstructor(uid)
        THEN Throw(st, "no-privileges")
    ELSE Fire(Ok(PinEffects(st, tid, uid, pin)), "action:topic.pin")

\* topicTools.pin / topicTools.unpin
topicTools_pin(st, tid, uid) ==
    IF TypeOf(uid) # "number" THEN Throw(st, "TypeError") ELSE togglePin(st, tid, uid, TRUE)
topicTools_unpin(st, tid, uid) ==
    IF TypeOf(uid) # "number" THEN Throw(st, "TypeError") ELSE togglePin(st, tid, uid, FALSE)

\* what a caller passes for expiry: a number, or a string of characters
Num(n) == [type |-> "number", num |-> n, chars |-> <<>>]
Str(chars) == [type |-> "string", num |-> 0, chars |-> chars]
\* the numbers that a conversion yields: NaN or an integer
NaN == [nan |-> TRUE, num |-> 0]
Finite(n) == [nan |-> FALSE, num |-> n]

DigitValue(ch) ==
    CASE ch = "0" -> 0 [] ch = "1" -> 1 [] ch = "2" -> 2 [] ch = "3" -> 3 [] ch = "4" -> 4
      [] ch = "5" -> 5 [] ch = "6" -> 6 [] ch = "7" -> 7 [] ch = "8" -> 8 [] ch = "9" -> 9
      [] OTHER -> -1
\* the longest prefix of decimal digits
RECURSIVE DigitPrefix(_)
DigitPrefix(chars) ==
    IF chars = <<>> \/ DigitValue(Head(chars)) < 0 THEN <<>>
    ELSE <<Head(chars)>> \o DigitPrefix(Tail(chars))
RECURSIVE DecimalValue(_)
DecimalValue(digits) ==
    IF digits = <<>> THEN 0
    ELSE 10 * DecimalValue(SubSeq(digits, 1, Len(digits) - 1)) + DigitValue(digits[Len(digits)])

\* parseInt(value, 10): the leading digits of the text of the value, NaN when there is none
parseInt(value) ==
    IF value.type = "number" THEN Finite(value.num)
    ELSE IF DigitPrefix(value.chars) = <<>> THEN NaN
    ELSE Finite(DecimalValue(DigitPrefix(value.chars)))
\* the conversion to a number that a relational operator applies to a string operand:
\* the empty string is 0, and a string with anything but digits is NaN
ToNumber(value) ==
    IF value.type = "number" THEN Finite(value.num)
    ELSE IF DigitPrefix(value.chars) = value.chars THEN Finite(DecimalValue(value.chars))
    ELSE NaN
\* value <= n: false when value converts to NaN
LessOrEqual(value, n) == ~ToNumber(value).nan /\ ToNumber(value).num <= n

\* topicTools.setPinExpiry. The field holds what a reader gets from it: getTopicFields
\* passes pinExpiry through parseInt.
topicTools_setPinExpiry(st, tid, expiry, uid) ==
    IF TypeOf(uid) # "number" THEN Throw(st, "TypeError")
    ELSE IF parseInt(expiry).nan \/ LessOrEqual(expiry, now) THEN Throw(st, "invalid-data")
    ELSE IF ~privsCategories_isAdminOrMod(Field(st, tid, "cid"), uid)
        THEN Throw(st, "no-privileges")
    ELSE Fire(Ok(setTopicField(st, tid, "pinExpiry", parseInt(expiry).num)),
              "action:topic.setPinExpiry")

\* Array.prototype.indexOf: the 0-based position of x in seq, -1 when absent
IndexOf(seq, x) ==
    IF \E i \in 1..Len(seq) : seq[i] = x
    THEN (CHOOSE i \in 1..Len(seq) : seq[i] = x /\ \A j \in 1..(i - 1) : seq[j] # x) - 1
    ELSE -1
\* seq.splice(i, 1): seq without its element at 0-based position i
Splice1(seq, i) == SubSeq(seq, 1, i) \o SubSeq(seq, i + 2, Len(seq))
\* seq.splice(i, 0, x): x inserted at 0-based position i, at the end when i is past it
InsertAt(seq, i, x) ==
    LET at == IF i > Len(seq) THEN Len(seq) ELSE i
    IN SubSeq(seq, 1, at) \o <<x>> \o SubSeq(seq, at + 1, Len(seq))

\* orderPinnedTopics counting the position from the bottom of the list
topicTools_orderPinnedTopics_FromBottom(st, uid, tid, order) ==
    LET cid == Field(st, tid, "cid")
        key == CidKey(cid, ":tids:pinned")
        pinnedTids == getSortedSetRange(st.zset, key)
        currentIndex == IndexOf(pinnedTids, tid)
        moved == IF Len(pinnedTids) > 1
                 THEN InsertAt(Splice1(pinnedTids, currentIndex), order, tid)
                 ELSE pinnedTids
    IN  IF cid = 0 \/ order < 0 THEN Throw(st, "invalid-data")
        ELSE IF ~privsCategories_isAdminOrMod(cid, uid) THEN Throw(st, "no-privileges")
        ELSE IF currentIndex = -1 THEN Ok(st)
        ELSE Ok([st EXCEPT !.zset = sortedSetAddIndexed(@, key, moved, 1)])

\* topicTools.orderPinnedTopics(uid, {tid, order})
topicTools_orderPinnedTopics(st, uid, tid, order) ==
    LET cid == Field(st, tid, "cid")
        key == CidKey(cid, ":tids:pinned")
        pinnedTids == getSortedSetRange(st.zset, key)
        currentIndex == IndexOf(pinnedTids, tid)
        newOrder == Len(pinnedTids) - order - 1
        moved == IF Len(pinnedTids) > 1
                 THEN InsertAt(Splice1(pinnedTids, currentIndex),
                               IF newOrder < 0 THEN 0 ELSE newOrder, tid)
                 ELSE pinnedTids
    IN  IF cid = 0 \/ order < 0 THEN Throw(st, "invalid-data")
        ELSE IF ~privsCategories_isAdminOrMod(cid, uid) THEN Throw(st, "no-privileges")
        ELSE IF currentIndex = -1 THEN Ok(st)
        ELSE Ok([st EXCEPT !.zset = sortedSetAddIndexed(@, key, moved, 1)])

\* topicTools.checkPinExpiry: every expired topic is handed to togglePin as 'system';
\* the calls run together, and the first one that throws fails the sweep
RECURSIVE SweepFrom(_, _, _, _)
SweepFrom(st0, st, tids, i) ==
    IF i > Len(tids) THEN [st |-> st, out |-> "ok", ret |-> <<>>]
    ELSE LET tid == tids[i]
             expiry == Field(st0, tid, "pinExpiry")
         IN  IF expiry # 0 /\ expiry <= now
             THEN LET r == togglePin(st, tid, SystemUid, FALSE)
                      rest == SweepFrom(st0, r.st, tids, i + 1)
                  IN [st |-> rest.st,
                      out |-> IF r.out # "ok" THEN r.out ELSE rest.out,
                      ret |-> rest.ret]
             ELSE LET rest == SweepFrom(st0, st, tids, i + 1)
                  IN [st |-> rest.st, out |-> rest.out, ret |-> <<tid>> \o rest.ret]
topicTools_checkPinExpiry(st, tids) ==
    LET r == SweepFrom(st, st, tids, 1)
    IN  IF r.out = "ok" THEN r ELSE [st |-> r.st, out |-> r.out, ret |-> <<>>]

-----------------------------------------------------------------------------
(* Privilege resolver: delete and purge *)

\* meta.config.preventTopicDeleteAfterReplies
preventTopicDeleteAfterReplies == 1

\* helpers.isAllowedTo / privsCategories.isUserAllowedTo: the category ACL.
\* Registered users hold topics:delete; purge is granted to uid 2 and uid 4,
\* topics:schedule to uid 2 and uid 3, topics:read and topics:reply to uid 2 and uid 4,
\* posts:view_deleted to uid 2.
AclAllows(privilege, uid, cid) ==
    IF uid <= 0 THEN FALSE
    ELSE IF privilege = "purge" THEN uid \in {2, 4}
    ELSE IF privilege = "topics:schedule" THEN uid \in {2, 3}
    ELSE IF privilege \in {"topics:read", "topics:reply"} THEN uid \in {2, 4}
    ELSE IF privilege = "posts:view_deleted" THEN uid = 2
    ELSE TRUE

\* Topics.isOwner
Topics_isOwner(st, tid, uid) == uid > 0 /\ Field(st, tid, "uid") = uid

\* the key of the threshold error: singular for a threshold of 1
ThresholdError(threshold) ==
    IF threshold > 1 THEN "cant-delete-topic-has-replies" ELSE "cant-delete-topic-has-reply"

\* canDelete letting the owner act whoever deleted the topic
privsTopics_canDeleteWith_AnyDeleter(threshold, st, tid, uid) ==
    LET cid == Field(st, tid, "cid")
        isModerator == IsModerator(uid, cid)
        isOwner == Topics_isOwner(st, tid, uid)
        allowedTo == AclAllows("topics:delete", uid, cid)
    IN  IF IsAdministrator(uid) THEN [out |-> "ok", can |-> TRUE]
        ELSE IF /\ ~isModerator
                /\ threshold # 0
                /\ Field(st, tid, "postcount") - 1 >= threshold
            THEN [out |-> ThresholdError(threshold), can |-> FALSE]
        ELSE [out |-> "ok", can |-> allowedTo /\ (isOwner \/ isModerator)]

\* canDelete applying the reply threshold to moderators as well
privsTopics_canDeleteWith_NoModExemption(threshold, st, tid, uid) ==
    LET cid == Field(st, tid, "cid")
        isModerator == IsModerator(uid, cid)
        isOwner == Topics_isOwner(st, tid, uid)
        allowedTo == AclAllows("topics:delete", uid, cid)
        deleterUid == Field(st, tid, "deleterUid")
    IN  IF IsAdministrator(uid) THEN [out |-> "ok", can |-> TRUE]
        ELSE IF /\ threshold # 0
                /\ Field(st, tid, "postcount") - 1 >= threshold
            THEN [out |-> ThresholdError(threshold), can |-> FALSE]
        ELSE [out |-> "ok",
              can |-> allowedTo /\ ((isOwner /\ (deleterUid = 0 \/ deleterUid = Field(st, tid, "uid")))
                                    \/ isModerator)]

\* privsTopics.canDelete under a configured threshold: a boolean, or the
\* reply-threshold error
privsTopics_canDeleteWith(threshold, st, tid, uid) ==
    LET cid == Field(st, tid, "cid")
        isModerator == IsModerator(uid, cid)
        isOwner == Topics_isOwner(st, tid, uid)
        allowedTo == AclAllows("topics:delete", uid, cid)
        deleterUid == Field(st, tid, "deleterUid")
    IN  IF IsAdministrator(uid) THEN [out |-> "ok", can |-> TRUE]
        ELSE IF /\ ~isModerator
                /\ threshold # 0
                /\ Field(st, tid, "postcount") - 1 >= threshold
            THEN [out |-> ThresholdError(threshold), can |-> FALSE]
        ELSE [out |-> "ok",
              can |-> allowedTo /\ ((isOwner /\ (deleterUid = 0 \/ deleterUid = Field(st, tid, "uid")))
                                    \/ isModerator)]

\* privsTopics.canDelete with the threshold of meta.config
privsTopics_canDelete(st, tid, uid) ==
    privsTopics_canDeleteWith(preventTopicDeleteAfterReplies, st, tid, uid)

\* privsTopics.canPurge
privsTopics_canPurge(st, tid, uid) ==
    LET cid == Field(st, tid, "cid")
    IN  (AclAllows("purge", uid, cid) /\ (Topics_isOwner(st, tid, uid) \/ IsModerator(uid, cid)))
        \/ IsAdministrator(uid)

-----------------------------------------------------------------------------
(* Lifecycle state machine: delete / restore / purge / lock / move *)

\* Topics.delete: the flag and who set it
Topics_delete(st, tid, uid) ==
    setTopicField(setTopicField(st, tid, "deleted", 1), tid, "deleterUid", uid)
\* Topics.restore
Topics_restore(st, tid) == setTopicField(st, tid, "deleted", 0)

\* toggleDelete without the test of the flag it is about to write
toggleDelete_NoStateCheck(st, tid, uid, isDelete) ==
    IF TypeOf(uid) # "number" THEN Throw(st, "TypeError")
    ELSE IF ~Exists(st, tid) THEN Throw(st, "no-topic")
    ELSE IF Scheduled(st, tid) THEN Throw(st, "invalid-data")
    ELSE LET canDelete == privsTopics_canDelete(st, tid, uid)
         IN  IF canDelete.out # "ok" THEN Throw(st, canDelete.out)
             ELSE IF ~canDelete.can THEN Throw(st, "no-privileges")
             ELSE Fire(Ok(eventsLog(IF isDelete THEN Topics_delete(st, tid, uid) ELSE Topics_restore(st, tid),
                                    tid, IF isDelete THEN "delete" ELSE "restore", uid)),
                       IF isDelete THEN "action:topic.delete" ELSE "action:topic.restore")

\* toggleDelete without the scheduled check
toggleDelete_NoScheduledCheck(st, tid, uid, isDelete) ==
    IF TypeOf(uid) # "number" THEN Throw(st, "TypeError")
    ELSE IF ~Exists(st, tid) THEN Throw(st, "no-topic")
    ELSE LET canDelete == privsTopics_canDelete(st, tid, uid)
         IN  IF canDelete.out # "ok" THEN Throw(st, canDelete.out)
             ELSE IF ~canDelete.can THEN Throw(st, "no-privileges")
             ELSE IF Field(st, tid, "deleted") # 0 /\ isDelete THEN Throw(st, "topic-already-deleted")
             ELSE IF Field(st, tid, "deleted") = 0 /\ ~isDelete THEN Throw(st, "topic-already-restored")
             ELSE Fire(Ok(eventsLog(IF isDelete THEN Topics_delete(st, tid, uid) ELSE Topics_restore(st, tid),
                                    tid, IF isDelete THEN "delete" ELSE "restore", uid)),
                       IF isDelete THEN "action:topic.delete" ELSE "action:topic.restore")

toggleDelete(st, tid, uid, isDelete) ==
    IF TypeOf(uid) # "number" THEN Throw(st, "TypeError")
    ELSE IF ~Exists(st, tid) THEN Throw(st, "no-topic")
    ELSE IF Scheduled(st, tid) THEN Throw(st, "invalid-data")
    ELSE LET canDelete == privsTopics_canDelete(st, tid, uid)
         IN  IF canDelete.out # "ok" THEN Throw(st, canDelete.out)
             ELSE IF ~canDelete.can THEN Throw(st, "no-privileges")
             ELSE IF Field(st, tid, "deleted") # 0 /\ isDelete THEN Throw(st, "topic-already-deleted")
             ELSE IF Field(st, tid, "deleted") = 0 /\ ~isDelete THEN Throw(st, "topic-already-restored")
             ELSE Fire(Ok(eventsLog(IF isDelete THEN Topics_delete(st, tid, uid) ELSE Topics_restore(st, tid),
                                    tid, IF isDelete THEN "delete" ELSE "restore", uid)),
                       IF isDelete THEN "action:topic.delete" ELSE "action:topic.restore")

\* topicTools.delete / topicTools.restore
topicTools_delete(st, tid, uid) == toggleDelete(st, tid, uid, TRUE)
topicTools_restore(st, tid, uid) == toggleDelete(st, tid, uid, FALSE)

\* Topics.purgePostsAndTopic: the topic hash, its posts and every index entry go
Topics_purgePostsAndTopic(st, tid) ==
    [st EXCEPT !.topic[tid] = <<>>,
               !.zset = [k \in DOMAIN @ |->
                            IF k \in {TidKey(tid, s) : s \in {":posts", ":posts:votes", ":posters"}}
                            THEN <<>> ELSE Del(@[k], tid)]]

\* topicTools.purge
topicTools_purge(st, tid, uid) ==
    IF TypeOf(uid) # "number" THEN Throw(st, "TypeError")
    ELSE IF ~Exists(st, tid) THEN Throw(st, "no-topic")
    ELSE IF ~privsTopics_canPurge(st, tid, uid) THEN Throw(st, "no-privileges")
    ELSE Ok(Topics_purgePostsAndTopic(st, tid))

\* toggleLock with the instructor extension of togglePin
toggleLock_InstructorToo(st, tid, uid, lock) ==
    IF TypeOf(uid) # "number" THEN Throw(st, "TypeError")
    ELSE IF Field(st, tid, "cid") = 0 THEN Throw(st, "no-topic")
    ELSE IF ~privsCategories_isAdminOrMod(Field(st, tid, "cid"), uid) /\ ~User_isInstructor(uid)
        THEN Throw(st, "no-privileges")
    ELSE Returning(Fire(Ok(eventsLog(setTopicField(st, tid, "locked", IF lock THEN 1 ELSE 0),
                                     tid, IF lock THEN "lock" ELSE "unlock", uid)),
                        "action:topic.lock"),
                   [isLocked |-> lock, locked |-> lock])

\* toggleLock writing the flag before it asks who is calling
toggleLock_WriteFirst(st, tid, uid, lock) ==
    IF TypeOf(uid) # "number" THEN Throw(st, "TypeError")
    ELSE IF Field(st, tid, "cid") = 0 THEN Throw(st, "no-topic")
    ELSE IF ~privsCategories_isAdminOrMod(Field(st, tid, "cid"), uid)
        THEN Throw(setTopicField(st, tid, "locked", IF lock THEN 1 ELSE 0), "no-privileges")
    ELSE Returning(Fire(Ok(eventsLog(setTopicField(st, tid, "locked", IF lock THEN 1 ELSE 0),
                                     tid, IF lock THEN "lock" ELSE "unlock", uid)),
                        "action:topic.lock"),
                   [isLocked |-> lock, locked |-> lock])

\* toggleLock
toggleLock(st, tid, uid, lock) ==
    IF TypeOf(uid) # "number" THEN Throw(st, "TypeError")
    ELSE IF Field(st, tid, "cid") = 0 THEN Throw(st, "no-topic")
    ELSE IF ~privsCategories_isAdminOrMod(Field(st, tid, "cid"), uid) THEN Throw(st, "no-privileges")
    ELSE Returning(Fire(Ok(eventsLog(setTopicField(st, tid, "locked", IF lock THEN 1 ELSE 0),
                                     tid, IF lock THEN "lock" ELSE "unlock", uid)),
                        "action:topic.lock"),
                   [isLocked |-> lock, locked |-> lock])

\* topicTools.lock / topicTools.unlock
topicTools_lock(st, tid, uid) == toggleLock(st, tid, uid, TRUE)
topicTools_unlock(st, tid, uid) == toggleLock(st, tid, uid, FALSE)

RECURSIVE TagBulk(_, _, _, _)
TagBulk(tags, cid, score, tid) ==
    IF tags = {} THEN <<>>
    ELSE LET g == CHOOSE x \in tags : TRUE
         IN << <<CidTagKey(cid, g), score, tid>> >> \o TagBulk(tags \ {g}, cid, score, tid)

\* move filing the topic in the standard indices whether it is pinned or not
topicTools_move_IgnorePinned(st, tid, cid, uid) ==
    IF ~Exists(st, tid) THEN Throw(st, "no-topic")
    ELSE IF cid = Field(st, tid, "cid") THEN Throw(st, "cant-move-topic-to-same-category")
    ELSE
    LET oldCid == Field(st, tid, "cid")
        owner == Field(st, tid, "uid")
        tags == TopicTags(tid)
        removed == sortedSetsRemove(st.zset,
                      {CidKey(oldCid, s) : s \in CidSuffixes}
                      \cup {CidUidKey(oldCid, owner)}
                      \cup {CidTagKey(oldCid, g) : g \in tags}, tid)
        bulk == << <<CidKey(cid, ":tids:lastposttime"), Field(st, tid, "lastposttime"), tid>>,
                   <<CidUidKey(cid, owner), Field(st, tid, "timestamp"), tid>> >>
                \o TagBulk(tags, cid, Field(st, tid, "timestamp"), tid)
                \o (IF FALSE
                    THEN << <<CidKey(cid, ":tids:pinned"), now, tid>> >>
                    ELSE << <<CidKey(cid, ":tids"), Field(st, tid, "lastposttime"), tid>>,
                            <<CidKey(cid, ":tids:posts"), Field(st, tid, "postcount"), tid>>,
                            <<CidKey(cid, ":tids:votes"), Votes(st, tid), tid>>,
                            <<CidKey(cid, ":tids:views"), Field(st, tid, "viewcount"), tid>> >>)
        s1 == [st EXCEPT !.zset = sortedSetAddBulk(removed, bulk),
                         !.category[oldCid].topic_count = @ - 1,
                         !.category[cid].topic_count = @ + 1]
        s2 == setTopicField(setTopicField(s1, tid, "cid", cid), tid, "oldCid", oldCid)
    IN  Fire(Ok([s2 EXCEPT !.events[tid] =
                    Append(@, [type |-> "move", uid |-> uid, fromCid |-> oldCid])]),
             "action:topic.move")

\* move forgetting the topic_count of the category the topic leaves
topicTools_move_KeepsOldCount(st, tid, cid, uid) ==
    IF ~Exists(st, tid) THEN Throw(st, "no-topic")
    ELSE IF cid = Field(st, tid, "cid") THEN Throw(st, "cant-move-topic-to-same-category")
    ELSE
    LET oldCid == Field(st, tid, "cid")
        owner == Field(st, tid, "uid")
        tags == TopicTags(tid)
        removed == sortedSetsRemove(st.zset,
                      {CidKey(oldCid, s) : s \in CidSuffixes}
                      \cup {CidUidKey(oldCid, owner)}
                      \cup {CidTagKey(oldCid, g) : g \in tags}, tid)
        bulk == << <<CidKey(cid, ":tids:lastposttime"), Field(st, tid, "lastposttime"), tid>>,
                   <<CidUidKey(cid, owner), Field(st, tid, "timestamp"), tid>> >>
                \o TagBulk(tags, cid, Field(st, tid, "timestamp"), tid)
                \o (IF Field(st, tid, "pinned") # 0
                    THEN << <<CidKey(cid, ":tids:pinned"), now, tid>> >>
                    ELSE << <<CidKey(cid, ":tids"), Field(st, tid, "lastposttime"), tid>>,
                            <<CidKey(cid, ":tids:posts"), Field(st, tid, "postcount"), tid>>,
                            <<CidKey(cid, ":tids:votes"), Votes(st, tid), tid>>,
                            <<CidKey(cid, ":tids:views"), Field(st, tid, "viewcount"), tid>> >>)
        s1 == [st EXCEPT !.zset = sortedSetAddBulk(removed, bulk),
                         !.category[oldCid].topic_count = @,
                         !.category[cid].topic_count = @ + 1]
        s2 == setTopicField(setTopicField(s1, tid, "cid", cid), tid, "oldCid", oldCid)
    IN  Fire(Ok([s2 EXCEPT !.events[tid] =
                    Append(@, [type |-> "move", uid |-> uid, fromCid |-> oldCid])]),
             "action:topic.move")

\* topicTools.move
topicTools_move(st, tid, cid, uid) ==
    IF ~Exists(st, tid) THEN Throw(st, "no-topic")
    ELSE IF cid = Field(st, tid, "cid") THEN Throw(st, "cant-move-topic-to-same-category")
    ELSE
    LET oldCid == Field(st, tid, "cid")
        owner == Field(st, tid, "uid")
        tags == TopicTags(tid)
        removed == sortedSetsRemove(st.zset,
                      {CidKey(oldCid, s) : s \in CidSuffixes}
                      \cup {CidUidKey(oldCid, owner)}
                      \cup {CidTagKey(oldCid, g) : g \in tags}, tid)
        bulk == << <<CidKey(cid, ":tids:lastposttime"), Field(st, tid, "lastposttime"), tid>>,
                   <<CidUidKey(cid, owner), Field(st, tid, "timestamp"), tid>> >>
                \o TagBulk(tags, cid, Field(st, tid, "timestamp"), tid)
                \o (IF Field(st, tid, "pinned") # 0
                    THEN << <<CidKey(cid, ":tids:pinned"), now, tid>> >>
                    ELSE << <<CidKey(cid, ":tids"), Field(st, tid, "lastposttime"), tid>>,
                            <<CidKey(cid, ":tids:posts"), Field(st, tid, "postcount"), tid>>,
                            <<CidKey(cid, ":tids:votes"), Votes(st, tid), tid>>,
                            <<CidKey(cid, ":tids:views"), Field(st, tid, "viewcount"), tid>> >>)
        s1 == [st EXCEPT !.zset = sortedSetAddBulk(removed, bulk),
                         !.category[oldCid].topic_count = @ - 1,
                         !.category[cid].topic_count = @ + 1]
        s2 == setTopicField(setTopicField(s1, tid, "cid", cid), tid, "oldCid", oldCid)
    IN  Fire(Ok([s2 EXCEPT !.events[tid] =
                    Append(@, [type |-> "move", uid |-> uid, fromCid |-> oldCid])]),
             "action:topic.move")

-----------------------------------------------------------------------------
(* Aggregation and index maintainer *)

\* the author of each post: posts 2 and 3 are the instructor's, the others a student's
PostUid(pid) == IF pid \in {2, 3} THEN 3 ELSE 4
\* the postData the post collaborator hands over
Post(pid) == [pid |-> pid, uid |-> PostUid(pid), timestamp |-> pid, upvotes |-> 0, downvotes |-> 0]

\* the set argument of incrementFieldAndUpdateSortedSet: the key of one index, which is a
\* string, or an array of keys, which is an object
OneSet(key) == [type |-> "string", keys |-> <<key>>]
ManySets(keys) == [type |-> "object", keys |-> keys]

\* db.sortedSetAdd(key, score, member) on one key, db.sortedSetsAdd(keys, score, member)
\* on several
RECURSIVE sortedSetsAdd(_, _, _, _)
sortedSetsAdd(z, keys, score, member) ==
    IF keys = <<>> THEN z
    ELSE sortedSetsAdd(sortedSetAdd(z, Head(keys), score, member), Tail(keys), score, member)

\* incrementFieldAndUpdateSortedSet, started: when its assertions hold its first store call
\* is issued and nothing has been applied yet; when `typeof set === 'string'` fails the
\* promise it returns is rejected before any store call
incrementFieldAndUpdateSortedSet(tid, field, by, set) ==
    [tid |-> tid, field |-> field, by |-> by, set |-> set,
     pc |-> IF set.type = "string" THEN "incr" ELSE "rejected",
     error |-> IF set.type = "string" THEN "" ELSE "AssertionError", value |-> 0]
\* one store call of such a run completes: the increment, whose result it keeps, and
\* then the score it writes into the index
RunStep(st, run) ==
    IF run.pc = "incr"
    THEN LET s1 == incrObjectFieldBy(st, run.tid, run.field, run.by)
         IN [st |-> s1, run |-> [run EXCEPT !.pc = "zadd", !.value = Field(s1, run.tid, run.field)]]
    ELSE IF run.pc = "zadd"
    THEN [st |-> [st EXCEPT !.zset = sortedSetsAdd(@, run.set.keys, run.value, run.tid)],
          run |-> [run EXCEPT !.pc = "done"]]
    ELSE [st |-> st, run |-> run]
\* one store call of such a run fails: the promise of the run is rejected
RunFails(run) == [run EXCEPT !.pc = "rejected", !.error = "store"]

\* Topics.increasePostCount / Topics.decreasePostCount start the run and return without
\* awaiting it
Topics_increasePostCount(tid) ==
    incrementFieldAndUpdateSortedSet(tid, "postcount", 1, OneSet("topics:posts"))
Topics_decreasePostCount(tid) ==
    incrementFieldAndUpdateSortedSet(tid, "postcount", -1, OneSet("topics:posts"))
\* Topics.increaseViewCount reads the cid, starts the run and returns without awaiting it
Topics_increaseViewCount(st, tid) ==
    incrementFieldAndUpdateSortedSet(tid, "viewcount", 1,
        ManySets(<<"topics:views", CidKey(Field(st, tid, "cid"), ":tids:views")>>))
\* Topics.increaseInstructorCount / Topics.decreaseInstructorCount
Topics_increaseInstructorCount(st, tid) == incrObjectFieldBy(st, tid, "instructorcount", 1)
Topics_decreaseInstructorCount(st, tid) == incrObjectFieldBy(st, tid, "instructorcount", -1)

\* AttachPost writing mainPid whatever it has read
AttachPost_AlwaysRoot(st, tid, post, mainPid) ==
    setTopicField(st, tid, "mainPid", post.pid)

\* addPostToTopic after it has read mainPid: the root post is a field write, a reply
\* enters the reply index and the vote index
AttachPost(st, tid, post, mainPid) ==
    IF mainPid = 0 THEN setTopicField(st, tid, "mainPid", post.pid)
    ELSE [st EXCEPT !.zset =
            sortedSetAdd(sortedSetAdd(@, TidKey(tid, ":posts"), post.timestamp, post.pid),
                         TidKey(tid, ":posts:votes"), post.upvotes - post.downvotes, post.pid)]
\* addPostToTopic: if (await user.isInstructor(postData.uid)) increaseInstructorCount
CountInstructor(st, tid, post) ==
    IF User_isInstructor(post.uid) THEN Topics_increaseInstructorCount(st, tid) ELSE st
\* db.sortedSetIncrBy on the poster tally
TallyPoster(st, tid, post, by) ==
    [st EXCEPT !.zset = sortedSetIncrBy(@, TidKey(tid, ":posters"), by, post.uid)]
\* db.sortedSetCard of the poster tally
PosterCard(st, tid) == sortedSetCard(st.zset, TidKey(tid, ":posters"))
\* SetPosterCount counting the posts of the topic instead of its posters
SetPosterCount_CountsPosts(st, tid, posterCount) ==
    setTopicField(st, tid, "postercount", Field(st, tid, "postcount"))
\* Topics.setTopicField(tid, 'postercount', posterCount)
SetPosterCount(st, tid, posterCount) == setTopicField(st, tid, "postercount", posterCount)

\* Topics.addPostToTopic as one uninterrupted call: the store it leaves and the counter
\* run it has started
Topics_addPostToTopic(st, tid, post) ==
    LET s1 == AttachPost(st, tid, post, Field(st, tid, "mainPid"))
        s2 == CountInstructor(s1, tid, post)
        s3 == TallyPoster(s2, tid, post, 1)
    IN [st |-> SetPosterCount(s3, tid, PosterCard(s3, tid)),
        run |-> Topics_increasePostCount(tid)]

\* removePostFromTopic hands `if` the promise user.isInstructor returns, not the value
\* it resolves to: a promise is an object, and an object is truthy
PromiseTruthy(uid) == TRUE

\* removePostFromTopic without the pruning of tallies that fell to 0
Topics_removePostFromTopic_NoPrune(st, tid, post) ==
    LET s1 == [st EXCEPT !.zset =
                sortedSetsRemove(@, {TidKey(tid, ":posts"), TidKey(tid, ":posts:votes")}, post.pid)]
        s2 == IF PromiseTruthy(post.uid) THEN Topics_decreaseInstructorCount(s1, tid) ELSE s1
        s3 == TallyPoster(s2, tid, post, -1)
    IN [st |-> SetPosterCount(s3, tid, PosterCard(s3, tid)),
        run |-> Topics_decreasePostCount(tid)]

\* Topics.removePostFromTopic as one uninterrupted call
Topics_removePostFromTopic(st, tid, post) ==
    LET s1 == [st EXCEPT !.zset =
                sortedSetsRemove(@, {TidKey(tid, ":posts"), TidKey(tid, ":posts:votes")}, post.pid)]
        s2 == IF PromiseTruthy(post.uid) THEN Topics_decreaseInstructorCount(s1, tid) ELSE s1
        s3 == TallyPoster(s2, tid, post, -1)
        s4 == [s3 EXCEPT !.zset = sortedSetRemoveRangeByScore(@, TidKey(tid, ":posters"), 0)]
    IN [st |-> SetPosterCount(s4, tid, PosterCard(s4, tid)),
        run |-> Topics_decreasePostCount(tid)]

-----------------------------------------------------------------------------
(* State machine *)

\* a topic as the topic-creation collaborator hands it over: root post attached,
\* filed in the indices of category 1; topic 2 is scheduled for time MaxNow
NewTopic(tid) ==
    [f \in {"tid", "uid", "cid", "mainPid", "postcount", "timestamp", "lastposttime"} |->
        CASE f = "tid" -> tid
          [] f = "uid" -> TopicOwner(tid)
          [] f = "cid" -> 1
          [] f = "mainPid" -> tid
          [] f = "postcount" -> 1
          [] OTHER -> IF tid = 2 THEN MaxNow ELSE 1]

\* a topic the creation collaborator has just written, before its first post arrives
FreshTopic(tid) == [NewTopic(tid) EXCEPT !["mainPid"] = 0, !["postcount"] = 0]

\* the indices as topic creation files them, for the topic hashes tp
InitZset(tp) ==
    [k \in ZKeys |->
        [t \in {t \in DOMAIN tp :
                    \/ k \in {CidKey(1, s) : s \in CidSuffixes \ {":tids:pinned"}}
                    \/ k = CidUidKey(1, TopicOwner(t))
                    \/ k \in {CidTagKey(1, g) : g \in TopicTags(t)}
                    \/ k \in {"topics:posts", "topics:views"}} |->
            CASE k \in {CidKey(1, ":tids:posts"), "topics:posts"} -> tp[t]["postcount"]
              [] k = CidKey(1, ":tids:votes") ->
                    IntField(tp[t], "upvotes") - IntField(tp[t], "downvotes")
              [] k \in {CidKey(1, ":tids:views"), "topics:views"} -> IntField(tp[t], "viewcount")
              [] k \in {CidKey(1, ":tids"), CidKey(1, ":tids:lastposttime")} ->
                    tp[t]["lastposttime"]
              [] OTHER -> tp[t]["timestamp"]]]

InitStoreOf(tp) ==
    /\ topic = tp
    /\ zset = InitZset(tp)
    /\ events = [t \in Tids |-> <<>>]
    /\ category = [c \in Cids |-> [topic_count |-> IF c = 1 THEN Cardinality(Tids) ELSE 0]]
    /\ now = 1

InitStore == InitStoreOf([t \in Tids |-> NewTopic(t)])
\* topic 1 is new and has no post yet
InitStorePosts == InitStoreOf([t \in Tids |-> IF t = 1 THEN FreshTopic(t) ELSE NewTopic(t)])

InitPostsIdle ==
    /\ attached = {}
    /\ adds = 0
    /\ removes = 0
    /\ stray = FALSE
    /\ pending = <<>>
    /\ proc = <<>>

Init == InitStore /\ InitPostsIdle

RECURSIVE SumLen(_, _)
SumLen(ev, ts) ==
    IF ts = {} THEN 0
    ELSE LET t == CHOOSE x \in ts : TRUE IN Len(ev[t]) + SumLen(ev, ts \ {t})
EventCount(st) == SumLen(st.events, Tids)

\* a call runs to its end: what it leaves in the store
Commit(r) ==
    /\ EventCount(r.st) <= MaxEvents
    /\ topic' = r.st.topic
    /\ zset' = r.st.zset
    /\ events' = r.st.events
    /\ category' = r.st.category
    /\ UNCHANGED <<now, postVars>>

Pin(tid, uid) == Commit(topicTools_pin(Store, tid, uid))
Unpin(tid, uid) == Commit(topicTools_unpin(Store, tid, uid))
SetPinExpiry(tid, expiry, uid) == Commit(topicTools_setPinExpiry(Store, tid, expiry, uid))
CheckPinExpiry(tids) == Commit(topicTools_checkPinExpiry(Store, tids))
Lock(tid, uid) == Commit(topicTools_lock(Store, tid, uid))
Unlock(tid, uid) == Commit(topicTools_unlock(Store, tid, uid))
Delete(tid, uid) == Commit(topicTools_delete(Store, tid, uid))
Restore(tid, uid) == Commit(topicTools_restore(Store, tid, uid))
Purge(tid, uid) == Commit(topicTools_purge(Store, tid, uid))
Move(tid, cid, uid) == Commit(topicTools_move(Store, tid, cid, uid))
OrderPinnedTopics(uid, tid, order) == Commit(topicTools_orderPinnedTopics(Store, uid, tid, order))

\* the clock advances
Tick ==
    /\ now < MaxNow
    /\ now' = now + 1
    /\ UNCHANGED <<storeVars, postVars>>

\* the lists of distinct topic ids a caller may pass
TidLists == {<<>>} \cup {<<t>> : t \in Tids} \cup {p \in Tids \X Tids : p[1] # p[2]}

\* move leaves authorization to its caller, which admits administrators
Movers == {u \in Uids : IsAdministrator(u)}

\* pinning, its expiry and moves between categories
Next ==
    \/ \E tid \in Tids, uid \in Uids : Pin(tid, uid)
    \/ \E tid \in Tids, uid \in Uids : Unpin(tid, uid)
    \/ \E tid \in Tids, uid \in Uids, expiry \in 1..(MaxNow + 1) :
            SetPinExpiry(tid, Num(expiry), uid)
    \/ \E tids \in TidLists : CheckPinExpiry(tids)
    \/ \E tid \in Tids, cid \in Cids, uid \in Movers : Move(tid, cid, uid)
    \/ Tick

Spec == Init /\ [][Next]_vars

\* the flags of a topic: pin, lock, delete, restore, purge
NextLife ==
    \/ \E tid \in Tids, uid \in Uids : Pin(tid, uid)
    \/ \E tid \in Tids, uid \in Uids : Unpin(tid, uid)
    \/ \E tid \in Tids, uid \in Uids : Lock(tid, uid)
    \/ \E tid \in Tids, uid \in Uids : Unlock(tid, uid)
    \/ \E tid \in Tids, uid \in Uids : Delete(tid, uid)
    \/ \E tid \in Tids, uid \in Uids : Restore(tid, uid)
    \/ \E tid \in Tids, uid \in Uids : Purge(tid, uid)
    \/ Tick

SpecLife == Init /\ [][NextLife]_vars

MaxOrder == 2       \* orderPinnedTopics is asked for the positions 0..MaxOrder

\* the caller of the commands: the administrator
Callers == {1}

\* every command of the lifecycle state machine
NextTools ==
    \/ \E tid \in Tids, uid \in Callers : Pin(tid, uid)
    \/ \E tid \in Tids, uid \in Callers : Unpin(tid, uid)
    \/ \E tid \in Tids, uid \in Callers, expiry \in {Num(MaxNow + 1)} :
            SetPinExpiry(tid, expiry, uid)
    \/ \E tid \in Tids, uid \in Callers, order \in 0..MaxOrder : OrderPinnedTopics(uid, tid, order)
    \/ \E tid \in Tids, uid \in Callers : Lock(tid, uid)
    \/ \E tid \in Tids, uid \in Callers : Unlock(tid, uid)
    \/ \E tid \in Tids, uid \in Callers : Delete(tid, uid)
    \/ \E tid \in Tids, uid \in Callers : Restore(tid, uid)
    \/ \E tid \in Tids, uid \in Callers : Purge(tid, uid)
    \/ Tick

SpecTools == Init /\ [][NextTools]_vars

-----------------------------------------------------------------------------
(* State machine of the pin expiry *)

\* the expiry values a caller passes: timestamps, a numeric string, and strings that are
\* not numbers
ExpiryArgs ==
    {Num(n) : n \in 1..(MaxNow + 1)} \cup {Str(<<"3">>), Str(<<"a">>), Str(<<"1", "a">>)}

\* the administrator pins topics, and anybody sets an expiry, whatever was typed for it
NextExpiry ==
    \/ \E tid \in Tids, uid \in Callers : Pin(tid, uid)
    \/ \E tid \in Tids, uid \in Uids, expiry \in ExpiryArgs : SetPinExpiry(tid, expiry, uid)
    \/ Tick

SpecExpiry == Init /\ [][NextExpiry]_vars

-----------------------------------------------------------------------------
(* State machine of the order of the pinned topics *)

MaxPinned == 3      \* the forum has MaxPinned topics, so a category pins up to MaxPinned

PinnedTids == 1..MaxPinned
\* the positions a caller may pass, a negative one included
OrderArgs == (-1)..MaxOrder

\* a forum of MaxPinned topics in category 1, none of them pinned
InitOrder ==
    /\ now \in {1, MaxNow}
    /\ LET tp == [t \in PinnedTids |-> NewTopic(t)]
       IN  /\ topic = tp
           /\ zset = InitZset(tp)
           /\ events = [t \in PinnedTids |-> <<>>]
           /\ category = [c \in Cids |-> [topic_count |-> IF c = 1 THEN MaxPinned ELSE 0]]
    /\ InitPostsIdle

\* a call runs to its end: what it leaves in the store
Apply(r) ==
    /\ topic' = r.st.topic
    /\ zset' = r.st.zset
    /\ events' = r.st.events
    /\ category' = r.st.category
    /\ UNCHANGED <<now, postVars>>

\* the administrator pins a topic that is not pinned
PinUnpinned(tid) == Field(Store, tid, "pinned") = 0 /\ Apply(topicTools_pin(Store, tid, 1))
\* the administrator moves a topic of category 1 to category 2
MoveAway(tid) == Field(Store, tid, "cid") = 1 /\ Apply(topicTools_move(Store, tid, 2, 1))
Reorder(uid, tid, order) == Apply(topicTools_orderPinnedTopics(Store, uid, tid, order))

NextOrder ==
    \/ \E tid \in PinnedTids : PinUnpinned(tid)
    \/ \E tid \in PinnedTids : MoveAway(tid)
    \/ \E uid \in Uids, tid \in PinnedTids, order \in OrderArgs : Reorder(uid, tid, order)

SpecOrder == InitOrder /\ [][NextOrder]_vars

-----------------------------------------------------------------------------
(* State machine of delete and restore on topics that have replies *)

MaxPosts == 3       \* a topic starts with 1..MaxPosts posts
MaxThreshold == 2   \* thresholds 0..MaxThreshold are tried

\* the pids of the replies of a topic that has n posts
ReplyPids(tid, n) == {10 * tid + i : i \in 1..(n - 1)}

\* the store after topic creation and the replies made since: the replies are all the
\* topic owner's
InitDeleteOf(tp) ==
    /\ topic = tp
    /\ zset = [k \in ZKeys |->
                IF \E t \in Tids : k \in {TidKey(t, ":posts"), TidKey(t, ":posts:votes")}
                THEN LET t == CHOOSE t \in Tids : k \in {TidKey(t, ":posts"), TidKey(t, ":posts:votes")}
                     IN [p \in ReplyPids(t, tp[t]["postcount"]) |->
                            IF k = TidKey(t, ":posts") THEN tp[t]["timestamp"] ELSE 0]
                ELSE IF \E t \in Tids : k = TidKey(t, ":posters")
                THEN LET t == CHOOSE t \in Tids : k = TidKey(t, ":posters")
                     IN [u \in {TopicOwner(t)} |-> tp[t]["postcount"]]
                ELSE InitZset(tp)[k]]
    /\ events = [t \in Tids |-> <<>>]
    /\ category = [c \in Cids |-> [topic_count |-> IF c = 1 THEN Cardinality(Tids) ELSE 0]]
    /\ now = 1

InitDelete ==
    /\ \E n \in [Tids -> 1..MaxPosts] :
        InitDeleteOf([t \in Tids |->
            [f \in DOMAIN NewTopic(t) \cup {"postercount"} |->
                IF f = "postcount" THEN n[t]
                ELSE IF f = "postercount" THEN 1
                ELSE NewTopic(t)[f]]])
    /\ InitPostsIdle

NextDelete ==
    \/ \E tid \in Tids, uid \in Uids : Delete(tid, uid)
    \/ \E tid \in Tids, uid \in Uids : Restore(tid, uid)
    \/ Tick

SpecDelete == InitDelete /\ [][NextDelete]_vars

-----------------------------------------------------------------------------
(* State machine of the aggregation hooks *)

MaxCalls == 4       \* addPostToTopic and removePostFromTopic calls in one run
MaxConc == 2        \* addPostToTopic calls made by callers that do not wait for one another

\* the topic the posts of this model belong to
PostTids == {1}

InitPosts == InitStorePosts /\ InitPostsIdle

SetStore(st) ==
    /\ topic' = st.topic
    /\ zset' = st.zset
    /\ events' = st.events
    /\ category' = st.category

\* addPostToTopic called and awaited, for a post that is not attached
AddPost(tid, pid) ==
    /\ pid \notin attached
    /\ pid \notin DOMAIN proc
    /\ adds + removes < MaxCalls
    /\ Len(pending) < MaxPending
    /\ LET r == Topics_addPostToTopic(Store, tid, Post(pid))
       IN SetStore(r.st) /\ pending' = Append(pending, r.run)
    /\ attached' = attached \cup {pid}
    /\ adds' = adds + 1
    /\ UNCHANGED <<now, removes, stray, proc>>

\* removePostFromTopic called and awaited, for any post
RemovePost(tid, pid) ==
    /\ pid \notin DOMAIN proc
    /\ adds + removes < MaxCalls
    /\ Len(pending) < MaxPending
    /\ LET r == Topics_removePostFromTopic(Store, tid, Post(pid))
       IN SetStore(r.st) /\ pending' = Append(pending, r.run)
    /\ stray' = (stray \/ pid \notin attached)
    /\ attached' = attached \ {pid}
    /\ removes' = removes + 1
    /\ UNCHANGED <<now, adds, proc>>

RemoveAt(seq, i) == SubSeq(seq, 1, i - 1) \o SubSeq(seq, i + 1, Len(seq))

\* a store call of a counter run completes; nothing orders the runs among themselves
\* or against the calls that started them
Detached(i) ==
    /\ i \in 1..Len(pending)
    /\ LET r == RunStep(Store, pending[i])
       IN /\ SetStore(r.st)
          /\ pending' = IF r.run.pc = "done" THEN RemoveAt(pending, i)
                        ELSE [pending EXCEPT ![i] = r.run]
    /\ UNCHANGED <<now, attached, adds, removes, stray, proc>>

NextPosts ==
    \/ \E tid \in PostTids, pid \in Pids : AddPost(tid, pid)
    \/ \E tid \in PostTids, pid \in Pids : RemovePost(tid, pid)
    \/ \E i \in 1..MaxPending : Detached(i)

\* sequential callers: every call is awaited before the next one is made
SpecPosts == InitPosts /\ [][NextPosts]_vars

\* addPostToTopic step by step; every await is a point where another call can run
SetProc(pid, rec) ==
    proc' = [p \in DOMAIN proc \cup {pid} |-> IF p = pid THEN rec ELSE proc[p]]
At(pid, pc) == pid \in DOMAIN proc /\ proc[pid].pc = pc
Goto(pid, pc) == proc' = [proc EXCEPT ![pid].pc = pc]
PostVarsIdle == UNCHANGED <<now, attached, adds, removes, stray, pending>>

\* const mainPid = await Topics.getTopicField(tid, 'mainPid')
ReadMainPid(tid, pid) ==
    /\ pid \notin attached
    /\ pid \notin DOMAIN proc
    /\ adds + Cardinality(DOMAIN proc) < MaxConc
    /\ SetProc(pid, [pc |-> "attach", mainPid |-> Field(Store, tid, "mainPid"), posterCount |-> 0])
    /\ UNCHANGED storeVars
    /\ PostVarsIdle

\* await Topics.setTopicField(tid, 'mainPid', pid), or await db.sortedSetsAdd(...)
Attach(tid, pid) ==
    /\ At(pid, "attach")
    /\ SetStore(AttachPost(Store, tid, Post(pid), proc[pid].mainPid))
    /\ Goto(pid, "count")
    /\ PostVarsIdle

\* await Topics.increasePostCount(tid) starts the counter run; await user.isInstructor
StartCount(tid, pid) ==
    /\ At(pid, "count")
    /\ Len(pending) < MaxPending
    /\ pending' = Append(pending, Topics_increasePostCount(tid))
    /\ Goto(pid, IF User_isInstructor(Post(pid).uid) THEN "instructor" ELSE "tally")
    /\ UNCHANGED <<storeVars, now, attached, adds, removes, stray>>

\* await Topics.increaseInstructorCount(tid)
Instructor(tid, pid) ==
    /\ At(pid, "instructor")
    /\ SetStore(Topics_increaseInstructorCount(Store, tid))
    /\ Goto(pid, "tally")
    /\ PostVarsIdle

\* await db.sortedSetIncrBy(`tid:${tid}:posters`, 1, postData.uid)
Tally(tid, pid) ==
    /\ At(pid, "tally")
    /\ SetStore(TallyPoster(Store, tid, Post(pid), 1))
    /\ Goto(pid, "card")
    /\ PostVarsIdle

\* const posterCount = await db.sortedSetCard(`tid:${tid}:posters`)
Card(tid, pid) ==
    /\ At(pid, "card")
    /\ proc' = [proc EXCEPT ![pid].pc = "set", ![pid].posterCount = PosterCard(Store, tid)]
    /\ UNCHANGED storeVars
    /\ PostVarsIdle

\* await Topics.setTopicField(tid, 'postercount', posterCount); the call returns
Return(tid, pid) ==
    /\ At(pid, "set")
    /\ SetStore(SetPosterCount(Store, tid, proc[pid].posterCount))
    /\ proc' = [p \in DOMAIN proc \ {pid} |-> proc[p]]
    /\ attached' = attached \cup {pid}
    /\ adds' = adds + 1
    /\ UNCHANGED <<now, removes, stray, pending>>

NextConc ==
    \/ \E tid \in PostTids, pid \in Pids : ReadMainPid(tid, pid)
    \/ \E tid \in PostTids, pid \in Pids : Attach(tid, pid)
    \/ \E tid \in PostTids, pid \in Pids : StartCount(tid, pid)
    \/ \E tid \in PostTids, pid \in Pids : Instructor(tid, pid)
    \/ \E tid \in PostTids, pid \in Pids : Tally(tid, pid)
    \/ \E tid \in PostTids, pid \in Pids : Card(tid, pid)
    \/ \E tid \in PostTids, pid \in Pids : Return(tid, pid)
    \/ \E i \in 1..MaxPending : Detached(i)

\* callers that do not wait for one another
SpecConc == InitPosts /\ [][NextConc]_vars

-----------------------------------------------------------------------------
(* State machine of the counter runs and their failures *)

\* the calls made so far, each with the counter run it started at the same position of
\* pending; a call that was awaited and returned has out = "ok"
Returned(op, tid) == proc' = Append(proc, [op |-> op, tid |-> tid, out |-> "ok"])
InFlight(run) == run.pc \in {"incr", "zadd"}

\* addPostToTopic called and awaited, for a post that is not attached
CountedAdd(tid, pid) ==
    /\ pid \notin attached
    /\ Len(pending) < MaxPending
    /\ LET r == Topics_addPostToTopic(Store, tid, Post(pid))
       IN SetStore(r.st) /\ pending' = Append(pending, r.run)
    /\ Returned("addPostToTopic", tid)
    /\ attached' = attached \cup {pid}
    /\ adds' = adds + 1
    /\ UNCHANGED <<now, removes, stray>>

\* removePostFromTopic called and awaited, for an attached post
CountedRemove(tid, pid) ==
    /\ pid \in attached
    /\ Len(pending) < MaxPending
    /\ LET r == Topics_removePostFromTopic(Store, tid, Post(pid))
       IN SetStore(r.st) /\ pending' = Append(pending, r.run)
    /\ Returned("removePostFromTopic", tid)
    /\ attached' = attached \ {pid}
    /\ removes' = removes + 1
    /\ UNCHANGED <<now, adds, stray>>

\* increaseViewCount called and awaited
View(tid) ==
    /\ Len(pending) < MaxPending
    /\ pending' = Append(pending, Topics_increaseViewCount(Store, tid))
    /\ Returned("increaseViewCount", tid)
    /\ UNCHANGED <<storeVars, now, attached, adds, removes, stray>>

\* a store call of a counter run completes
RunCompletes(i) ==
    /\ i \in 1..Len(pending)
    /\ InFlight(pending[i])
    /\ LET r == RunStep(Store, pending[i])
       IN SetStore(r.st) /\ pending' = [pending EXCEPT ![i] = r.run]
    /\ UNCHANGED <<now, attached, adds, removes, stray, proc>>

\* a store call of a counter run fails
RunRejected(i) ==
    /\ i \in 1..Len(pending)
    /\ InFlight(pending[i])
    /\ pending' = [pending EXCEPT ![i] = RunFails(@)]
    /\ UNCHANGED <<storeVars, now, attached, adds, removes, stray, proc>>

NextRuns ==
    \/ \E tid \in PostTids, pid \in Pids : CountedAdd(tid, pid)
    \/ \E tid \in PostTids, pid \in Pids : CountedRemove(tid, pid)
    \/ \E tid \in Tids : View(tid)
    \/ \E i \in 1..MaxPending : RunCompletes(i)
    \/ \E i \in 1..MaxPending : RunRejected(i)

SpecRuns == InitPosts /\ [][NextRuns]_vars

-----------------------------------------------------------------------------
(* State machine of one transition, effect by effect *)

Transitions == {"delete", "restore", "lock", "unlock", "pin", "unpin", "move"}

\* Stages with a move that does not take the topic off the count of the old category
Stages_MoveKeepsOldCount(op) ==
    CASE op = "delete" -> << {"Topics.delete"}, {"events.log"} >>
      [] op = "restore" -> << {"Topics.restore"}, {"events.log"} >>
      [] op \in {"lock", "unlock"} -> << {"setTopicField"}, {"events.log"} >>
      [] op = "pin" -> << {"setTopicField", "events.log", "sortedSetAdd", "sortedSetsRemove"} >>
      [] op = "unpin" -> << {"setTopicField", "events.log", "sortedSetRemove",
                             "deleteTopicField", "sortedSetAddBulk"} >>
      [] op = "move" -> << {"sortedSetsRemove"}, {"sortedSetAddBulk"},
                           {"incrementNew", "setTopicFields", "events.log"} >>

\* Stages with an unpin that leaves the topic in the pinned index
Stages_UnpinStaysPinned(op) ==
    CASE op = "delete" -> << {"Topics.delete"}, {"events.log"} >>
      [] op = "restore" -> << {"Topics.restore"}, {"events.log"} >>
      [] op \in {"lock", "unlock"} -> << {"setTopicField"}, {"events.log"} >>
      [] op = "pin" -> << {"setTopicField", "events.log", "sortedSetAdd", "sortedSetsRemove"} >>
      [] op = "unpin" -> << {"setTopicField", "events.log", "deleteTopicField",
                             "sortedSetAddBulk"} >>
      [] op = "move" -> << {"sortedSetsRemove"}, {"sortedSetAddBulk"},
                           {"incrementOld", "incrementNew", "setTopicFields", "events.log"} >>

\* the writes a transition issues once its guards have passed.  The writes of one stage
\* are issued together (Promise.all) and complete in any order; a stage is awaited
\* before the next one begins
Stages(op) ==
    CASE op = "delete" -> << {"Topics.delete"}, {"events.log"} >>
      [] op = "restore" -> << {"Topics.restore"}, {"events.log"} >>
      [] op \in {"lock", "unlock"} -> << {"setTopicField"}, {"events.log"} >>
      [] op = "pin" -> << {"setTopicField", "events.log", "sortedSetAdd", "sortedSetsRemove"} >>
      [] op = "unpin" -> << {"setTopicField", "events.log", "sortedSetRemove",
                             "deleteTopicField", "sortedSetAddBulk"} >>
      [] op = "move" -> << {"sortedSetsRemove"}, {"sortedSetAddBulk"},
                           {"incrementOld", "incrementNew", "setTopicFields", "events.log"} >>

\* the write that persists the new state of the topic
Mutation(op) ==
    CASE op = "delete" -> "Topics.delete"
      [] op = "restore" -> "Topics.restore"
      [] op = "move" -> "setTopicFields"
      [] OTHER -> "setTopicField"

\* the action hook of a transition
HookOf(op) ==
    CASE op \in {"lock", "unlock"} -> "action:topic.lock"
      [] op \in {"pin", "unpin"} -> "action:topic.pin"
      [] OTHER -> "action:topic." \o op

\* the whole call, as the commands above have it
Whole(op, st, tid, uid, to) ==
    CASE op = "delete" -> topicTools_delete(st, tid, uid)
      [] op = "restore" -> topicTools_restore(st, tid, uid)
      [] op = "lock" -> topicTools_lock(st, tid, uid)
      [] op = "unlock" -> topicTools_unlock(st, tid, uid)
      [] op = "pin" -> topicTools_pin(st, tid, uid)
      [] op = "unpin" -> topicTools_unpin(st, tid, uid)
      [] op = "move" -> topicTools_move(st, tid, to, uid)

\* one write of the call c, which read topicData (c.data) before its first write
Effect(st, c, e) ==
    LET tid == c.tid
        cid == IntField(c.data, "cid")
        owner == IntField(c.data, "uid")
        standard == << <<CidKey(IF c.op = "move" THEN c.to ELSE cid, ":tids"),
                         IntField(c.data, "lastposttime"), tid>>,
                       <<CidKey(IF c.op = "move" THEN c.to ELSE cid, ":tids:posts"),
                         IntField(c.data, "postcount"), tid>>,
                       <<CidKey(IF c.op = "move" THEN c.to ELSE cid, ":tids:votes"),
                         IntField(c.data, "upvotes") - IntField(c.data, "downvotes"), tid>>,
                       <<CidKey(IF c.op = "move" THEN c.to ELSE cid, ":tids:views"),
                         IntField(c.data, "viewcount"), tid>> >>
    IN  CASE e = "Topics.delete" -> Topics_delete(st, tid, c.uid)
          [] e = "Topics.restore" -> Topics_restore(st, tid)
          [] e = "setTopicField" ->
                setTopicField(st, tid, IF c.op \in {"lock", "unlock"} THEN "locked" ELSE "pinned",
                              IF c.op \in {"lock", "pin"} THEN 1 ELSE 0)
          [] e = "deleteTopicField" -> deleteTopicField(st, tid, "pinExpiry")
          [] e = "sortedSetAdd" ->
                [st EXCEPT !.zset = sortedSetAdd(@, CidKey(cid, ":tids:pinned"), now, tid)]
          [] e = "sortedSetRemove" ->
                [st EXCEPT !.zset = sortedSetRemove(@, CidKey(cid, ":tids:pinned"), tid)]
          [] e = "sortedSetsRemove" ->
                [st EXCEPT !.zset =
                    sortedSetsRemove(@,
                        IF c.op = "pin" THEN {CidKey(cid, s) : s \in StandardSuffixes}
                        ELSE {CidKey(cid, s) : s \in CidSuffixes}
                             \cup {CidUidKey(cid, owner)}
                             \cup {CidTagKey(cid, g) : g \in TopicTags(tid)}, tid)]
          [] e = "sortedSetAddBulk" ->
                [st EXCEPT !.zset =
                    sortedSetAddBulk(@,
                        IF c.op = "unpin" THEN standard
                        ELSE << <<CidKey(c.to, ":tids:lastposttime"),
                                  IntField(c.data, "lastposttime"), tid>>,
                                <<CidUidKey(c.to, owner), IntField(c.data, "timestamp"), tid>> >>
                             \o TagBulk(TopicTags(tid), c.to, IntField(c.data, "timestamp"), tid)
                             \o (IF IntField(c.data, "pinned") # 0
                                 THEN << <<CidKey(c.to, ":tids:pinned"), now, tid>> >>
                                 ELSE standard))]
          [] e = "incrementOld" -> [st EXCEPT !.category[cid].topic_count = @ - 1]
          [] e = "incrementNew" -> [st EXCEPT !.category[c.to].topic_count = @ + 1]
          [] e = "setTopicFields" ->
                setTopicField(setTopicField(st, tid, "cid", c.to), tid, "oldCid", cid)
          [] e = "events.log" ->
                IF c.op = "move"
                THEN [st EXCEPT !.events[tid] =
                        Append(@, [type |-> "move", uid |-> c.uid, fromCid |-> cid])]
                ELSE eventsLog(st, tid, c.op, c.uid)

\* no transition is in flight
Idle == IF proc = <<>> THEN TRUE ELSE proc[1].pc = "done"

\* a transition passes its guards: topicData is read and the first writes are issued
Begin(op, tid, uid, to) ==
    /\ Idle
    /\ EventCount(Store) < MaxEvents
    /\ Whole(op, Store, tid, uid, to).out = "ok"
    /\ proc' = << [op |-> op, tid |-> tid, uid |-> uid, to |-> to, data |-> topic[tid],
                   stage |-> 1, todo |-> Stages(op)[1], trace |-> <<>>, pc |-> "run",
                   goal |-> Whole(op, Store, tid, uid, to).st] >>
    /\ UNCHANGED <<storeVars, now, attached, adds, removes, stray, pending>>

\* one of the writes issued together completes; the next stage is issued when the
\* last one of a stage has
Complete(e) ==
    /\ proc # <<>>
    /\ proc[1].pc = "run"
    /\ e \in proc[1].todo
    /\ SetStore(Effect(Store, proc[1], e))
    /\ proc' = << IF proc[1].todo = {e} /\ proc[1].stage < Len(Stages(proc[1].op))
                  THEN [proc[1] EXCEPT !.trace = Append(@, e),
                                       !.stage = @ + 1,
                                       !.todo = Stages(proc[1].op)[proc[1].stage + 1]]
                  ELSE [proc[1] EXCEPT !.trace = Append(@, e), !.todo = @ \ {e}] >>
    /\ UNCHANGED <<now, attached, adds, removes, stray, pending>>

\* a hook that does not wait for the writes
HookReady_Early(c) == TRUE
\* every stage has been awaited
HookReady(c) == c.todo = {} /\ c.stage = Len(Stages(c.op))

\* plugins.hooks.fire of the action hook; the call returns
FireHook ==
    /\ proc # <<>>
    /\ proc[1].pc = "run"
    /\ HookReady(proc[1])
    /\ proc' = << [proc[1] EXCEPT !.trace = Append(@, HookOf(proc[1].op)), !.pc = "done"] >>
    /\ UNCHANGED <<storeVars, now, attached, adds, removes, stray, pending>>

\* every write a transition may issue
Effects == UNION {UNION {Stages(op)[i] : i \in 1..Len(Stages(op))} : op \in Transitions}

NextSteps ==
    \/ \E op \in Transitions \ {"move"}, tid \in Tids, uid \in Callers : Begin(op, tid, uid, 0)
    \/ \E tid \in Tids, to \in Cids, uid \in Movers : Begin("move", tid, uid, to)
    \/ \E e \in Effects : Complete(e)
    \/ FireHook

SpecSteps == Init /\ [][NextSteps]_vars

-----------------------------------------------------------------------------
(* Privilege resolver: visibility of deleted and scheduled topics *)

\* JavaScript values are written by their literal: "true", "false", "0", "1", "null" and
\* "undefined" for the absent value
\* typeof value
TypeOfValue(v) ==
    CASE v \in {"true", "false"} -> "boolean"
      [] v \in {"0", "1"} -> "number"
      [] v = "null" -> "object"
      [] OTHER -> "undefined"
\* the value counts as true in a condition
Truthy(v) == v \in {"true", "1"}
\* a parameter default or a destructuring default: it stands in for undefined only
Default(v, d) == IF v = "undefined" THEN d ELSE v

\* the things a caller may pass for an object: an object (kind "object", with its
\* fields), null, a number or nothing
TypeOfArg(a) == IF a.kind \in {"object", "null"} THEN "object" ELSE a.kind

\* canViewDeletedScheduled asking about deleted before scheduled
privsTopics_canViewDeletedScheduled_DeletedFirst(topic_, privileges, viewDeleted, viewScheduled) ==
    LET privs == IF privileges.kind = "undefined"
                 THEN [kind |-> "object", view_deleted |-> "undefined", view_scheduled |-> "undefined"]
                 ELSE privileges
        vd == Default(viewDeleted, "false")
        vs == Default(viewScheduled, "false")
    IN  IF TypeOfArg(topic_) # "object" THEN "false"
        ELSE IF TypeOfArg(privs) # "object" THEN "false"
        ELSE IF TypeOfValue(vd) # "boolean" THEN "false"
        ELSE IF TypeOfValue(vs) # "boolean" THEN "false"
        ELSE IF topic_.kind = "null" THEN "false"
        ELSE IF privs.kind = "null" THEN "TypeError"
        ELSE IF Truthy(Default(topic_.deleted, "false")) THEN Default(privs.view_deleted, vd)
        ELSE IF Truthy(Default(topic_.scheduled, "false")) THEN Default(privs.view_scheduled, vs)
        ELSE "true"

\* privsTopics.canViewDeletedScheduled: the value returned, or TypeError when the
\* destructuring of a null privileges object throws
privsTopics_canViewDeletedScheduled(topic_, privileges, viewDeleted, viewScheduled) ==
    LET privs == IF privileges.kind = "undefined"
                 THEN [kind |-> "object", view_deleted |-> "undefined", view_scheduled |-> "undefined"]
                 ELSE privileges
        vd == Default(viewDeleted, "false")
        vs == Default(viewScheduled, "false")
    IN  IF TypeOfArg(topic_) # "object" THEN "false"
        ELSE IF TypeOfArg(privs) # "object" THEN "false"
        ELSE IF TypeOfValue(vd) # "boolean" THEN "false"
        ELSE IF TypeOfValue(vs) # "boolean" THEN "false"
        ELSE IF topic_.kind = "null" THEN "false"
        ELSE IF privs.kind = "null" THEN "TypeError"
        ELSE IF Truthy(Default(topic_.scheduled, "false")) THEN Default(privs.view_scheduled, vs)
        ELSE IF Truthy(Default(topic_.deleted, "false")) THEN Default(privs.view_deleted, vd)
        ELSE "true"

\* the arguments tried: topics as modifyTopic hands them over (deleted 0 or 1, scheduled
\* a boolean, either possibly absent), privileges with or without the two view fields,
\* and for the flags the booleans, nothing, and a number
NonObjects == {[kind |-> "null"], [kind |-> "number"], [kind |-> "undefined"]}
TopicArgs ==
    [kind : {"object"}, deleted : {"undefined", "0", "1"}, scheduled : {"undefined", "false", "true"}]
    \cup NonObjects
PrivilegeArgs ==
    [kind : {"object"}, view_deleted : {"undefined", "false", "true"},
     view_scheduled : {"undefined", "false", "true"}]
    \cup NonObjects
FlagArgs == {"undefined", "false", "true", "1", "null"}

\* a caller is about to ask
InitView ==
    /\ InitStore
    /\ attached = {}
    /\ adds = 0
    /\ removes = 0
    /\ stray = FALSE
    /\ pending = <<>>
    /\ \E t \in TopicArgs, p \in PrivilegeArgs, vd \in FlagArgs, vs \in FlagArgs :
            proc = << [pc |-> "call", topic |-> t, privileges |-> p,
                       viewDeleted |-> vd, viewScheduled |-> vs, ret |-> "undefined"] >>

\* the call runs
CanViewDeletedScheduled ==
    /\ proc[1].pc = "call"
    /\ proc' = << [proc[1] EXCEPT
                    !.pc = "done",
                    !.ret = privsTopics_canViewDeletedScheduled(
                                proc[1].topic, proc[1].privileges,
                                proc[1].viewDeleted, proc[1].viewScheduled)] >>
    /\ UNCHANGED <<storeVars, now, attached, adds, removes, stray, pending>>

NextView == CanViewDeletedScheduled

SpecView == InitView /\ [][NextView]_vars

-----------------------------------------------------------------------------
(* Privilege resolver: filters *)

\* categories.getCategoryField(cid, 'disabled')
Disabled(st, cid) == cid \in DOMAIN st.category /\ IntField(st.category[cid], "disabled") # 0

\* _.uniq: the first occurrence of each element, in order
RECURSIVE Uniq(_)
Uniq(seq) ==
    IF seq = <<>> THEN <<>>
    ELSE LET front == Uniq(SubSeq(seq, 1, Len(seq) - 1))
             x == seq[Len(seq)]
         IN IF \E i \in 1..Len(front) : front[i] = x THEN front ELSE Append(front, x)

\* Array.prototype.filter((element, index) => flags[index]): an index past the end of
\* flags reads undefined, which drops the element
RECURSIVE FilterByIndex(_, _, _)
FilterByIndex(seq, flags, i) ==
    IF i > Len(seq) THEN <<>>
    ELSE (IF i <= Len(flags) /\ flags[i] THEN <<seq[i]>> ELSE <<>>)
         \o FilterByIndex(seq, flags, i + 1)

\* privsTopics.filterUids
privsTopics_filterUids(privilege, st, tid, uids) ==
    IF uids = <<>> THEN <<>>
    ELSE LET all == Uniq(uids)
             cid == Field(st, tid, "cid")
             disabled == Disabled(st, cid)
             allowedTo == [i \in 1..Len(all) |-> AclAllows(privilege, all[i], cid)]
             isAdmins == [i \in 1..Len(all) |-> IsAdministrator(all[i])]
             scheduled == Scheduled(st, tid)
             deleted == Field(st, tid, "deleted") # 0
             canViewScheduled == [i \in 1..Len(all) |-> AclAllows("topics:schedule", all[i], cid)]
             kept == IF scheduled THEN FilterByIndex(all, canViewScheduled, 1) ELSE all
         IN  FilterByIndex(kept,
                [i \in 1..Len(all) |->
                    ~disabled /\ ((allowedTo[i] /\ (scheduled \/ ~deleted)) \/ isAdmins[i])], 1)

\* a boolean as a JavaScript value
Bool(b) == IF b THEN "true" ELSE "false"
\* the topic object that getTopicFields / getTopicsFields hands to canViewDeletedScheduled
TopicArg(st, tid) ==
    [kind |-> "object",
     deleted |-> IF Field(st, tid, "deleted") # 0 THEN "1" ELSE "0",
     scheduled |-> Bool(Scheduled(st, tid))]
\* the empty object literal passed for privileges
NoPrivileges == [kind |-> "object", view_deleted |-> "undefined", view_scheduled |-> "undefined"]

\* privsCategories.getBase(privilege, cids, uid), for one category
privsCategories_getBase(privilege, st, cid, uid) ==
    [disabled |-> Disabled(st, cid),
     allowedTo |-> AclAllows(privilege, uid, cid),
     view_deleted |-> AclAllows("posts:view_deleted", uid, cid),
     view_scheduled |-> AclAllows("topics:schedule", uid, cid),
     isAdmin |-> IsAdministrator(uid)]

\* Array.prototype.filter(keep)
RECURSIVE FilterTopics(_, _, _, _)
FilterTopics(privilege, st, tids, uid) ==
    IF tids = <<>> THEN <<>>
    ELSE LET t == Head(tids)
             results == privsCategories_getBase(privilege, st, Field(st, t, "cid"), uid)
             keep == /\ ~results.disabled /\ (results.allowedTo \/ results.isAdmin)
                     /\ \/ results.isAdmin
                        \/ Truthy(privsTopics_canViewDeletedScheduled(
                                TopicArg(st, t), NoPrivileges,
                                Bool(results.view_deleted), Bool(results.view_scheduled)))
         IN (IF keep THEN <<t>> ELSE <<>>) \o FilterTopics(privilege, st, Tail(tids), uid)

\* filterTids letting an administrator see the topics of a disabled category
privsTopics_filterTids_AdminSeesDisabled(privilege, st, tids, uid) ==
    IF tids.kind # "array" \/ tids.items = <<>> THEN <<>>
    ELSE IF IsAdministrator(uid) THEN tids.items
    ELSE FilterTopics(privilege, st, tids.items, uid)

\* privsTopics.filterTids; tids is an array (kind "array", with its items) or not
privsTopics_filterTids(privilege, st, tids, uid) ==
    IF tids.kind # "array" \/ tids.items = <<>> THEN <<>>
    ELSE FilterTopics(privilege, st, tids.items, uid)

-----------------------------------------------------------------------------
(* Privilege resolver: the privileges of a user on a topic *)

\* the category privileges that get asks helpers.isAllowedTo for
privs == {"topics:reply", "topics:read", "topics:schedule", "topics:tag", "topics:delete",
          "posts:edit", "posts:history", "posts:delete", "posts:view_deleted", "read", "purge"}
\* the flags that get derives from the roles and the category privileges
Derived == {"view_thread_tools", "editable", "deletable", "view_deleted", "view_scheduled",
            "isAdminOrMod", "isInstructor", "isOwner"}

\* the object that get hands to the hook filter:privileges.topics.get
privsTopics_get_result(st, tid, uid) ==
    LET cid == Field(st, tid, "cid")
        locked == Field(st, tid, "locked") # 0
        privData == [p \in privs |-> AclAllows(p, uid, cid)]
        isAdministrator == IsAdministrator(uid)
        isModerator == IsModerator(uid, cid)
        isInstructor == User_isInstructor(uid)
        isOwner == uid > 0 /\ uid = Field(st, tid, "uid")
        isAdminOrMod == isAdministrator \/ isModerator
        editable == isAdminOrMod \/ isInstructor
        deletable == (privData["topics:delete"] /\ (isOwner \/ isModerator)) \/ isAdministrator
        mayReply == Truthy(privsTopics_canViewDeletedScheduled(
                        TopicArg(st, tid), NoPrivileges, "false", Bool(privData["topics:schedule"])))
    IN [k \in privs \cup Derived \cup {"disabled", "tid", "uid"} |->
        CASE k = "topics:reply" ->
                (privData["topics:reply"] /\ ((~locked /\ mayReply) \/ isModerator))
                    \/ isAdministrator
          [] k = "topics:delete" ->
                (privData["topics:delete"] /\ (isOwner \/ isModerator)) \/ isAdministrator
          [] k \in {"posts:edit", "posts:delete"} ->
                (privData[k] /\ (~locked \/ isModerator)) \/ isAdministrator
          [] k = "purge" -> (privData["purge"] /\ (isOwner \/ isModerator)) \/ isAdministrator
          [] k = "view_thread_tools" -> editable \/ deletable
          [] k = "editable" -> editable
          [] k = "deletable" -> deletable
          [] k = "view_deleted" -> isAdminOrMod \/ isOwner \/ privData["posts:view_deleted"]
          [] k = "view_scheduled" -> privData["topics:schedule"] \/ isAdministrator
          [] k = "isAdminOrMod" -> isAdminOrMod
          [] k = "isInstructor" -> isInstructor
          [] k = "isOwner" -> isOwner
          [] k = "disabled" -> IntField(st.category[cid], "disabled")
          [] k = "tid" -> tid
          [] k = "uid" -> uid
          [] OTHER -> privData[k] \/ isAdministrator]

\* get forgetting that an instructor may edit
privsTopics_get_InstructorCannotEdit(st, tid, uid) ==
    LET result == privsTopics_get_result(st, tid, uid)
    IN [result EXCEPT !["editable"] = result["isAdminOrMod"],
                      !["view_thread_tools"] = result["isAdminOrMod"] \/ result["deletable"]]

\* get letting a user reply to a locked topic
privsTopics_get_ReplyWhenLocked(st, tid, uid) ==
    LET result == privsTopics_get_result(st, tid, uid)
        unlocked == privsTopics_get_result(
                        [st EXCEPT !.topic[tid] = Put(st.topic[tid], "locked", 0)], tid, uid)
    IN [result EXCEPT !["topics:reply"] = unlocked["topics:reply"]]

\* privsTopics.get: no plugin listens on filter:privileges.topics.get, so the hook returns
\* the object it was given
privsTopics_get(st, tid, uid) == privsTopics_get_result(st, tid, uid)

-----------------------------------------------------------------------------
(* State machine of the privilege queries *)

MaxUids == 2        \* the candidate lists handed to the filters hold up to MaxUids entries

\* the privileges asked for
Privileges == {"topics:read", "topics:reply"}
\* the lists of at most MaxUids elements of a set
ListsOf(elements) == UNION {[1..n -> elements] : n \in 0..MaxUids}

\* the store after the administrator has moved the topics in moved to category 2, locked
\* the topics in locks and deleted the topics in dels
RECURSIVE Prepared(_, _, _, _, _)
Prepared(st, ts, moved, locks, dels) ==
    IF ts = {} THEN st
    ELSE LET t == CHOOSE x \in ts : TRUE
             s1 == IF t \in moved THEN topicTools_move(st, t, 2, 1).st ELSE st
             s2 == IF t \in locks THEN topicTools_lock(s1, t, 1).st ELSE s1
             s3 == IF t \in dels THEN topicTools_delete(s2, t, 1).st ELSE s2
         IN Prepared(s3, ts \ {t}, moved, locks, dels)

\* a forum whose topics were moved, locked and deleted at some time, with categories
\* that an administrator has disabled; nobody has asked anything yet
InitPriv ==
    /\ now \in {1, MaxNow}
    /\ \E moved \in SUBSET {1}, locks \in SUBSET Tids, dels \in SUBSET Tids, off \in SUBSET Cids :
        LET tp == [t \in Tids |-> NewTopic(t)]
            st == Prepared([topic |-> tp, zset |-> InitZset(tp),
                            events |-> [t \in Tids |-> <<>>],
                            category |-> [c \in Cids |->
                                [topic_count |-> IF c = 1 THEN Cardinality(Tids) ELSE 0,
                                 disabled |-> IF c \in off THEN 1 ELSE 0]]],
                           Tids, moved, locks, dels)
        IN  /\ topic = st.topic
            /\ zset = st.zset
            /\ events = st.events
            /\ category = st.category
    /\ InitPostsIdle

\* a query is answered: it reads the store and leaves it as it is
Answer(call) ==
    /\ proc = <<>>
    /\ proc' = <<call>>
    /\ UNCHANGED <<storeVars, now, attached, adds, removes, stray, pending>>

FilterUids(privilege, tid, uids) ==
    Answer([op |-> "filterUids", privilege |-> privilege, tid |-> tid, uid |-> 0, list |-> uids,
            ret |-> privsTopics_filterUids(privilege, Store, tid, uids)])

\* the registered users, from whom the candidates of filterUids are taken
Members == Uids \ {0}
\* what a caller may pass for tids: an array, or null
TidsArgs == [kind : {"array"}, items : ListsOf(Tids)] \cup {[kind |-> "null", items |-> <<>>]}

FilterTids(privilege, tids, uid) ==
    Answer([op |-> "filterTids", privilege |-> privilege, tid |-> 0, uid |-> uid, list |-> tids,
            ret |-> privsTopics_filterTids(privilege, Store, tids, uid)])

Get(tid, uid) ==
    Answer([op |-> "get", privilege |-> "", tid |-> tid, uid |-> uid, list |-> <<>>,
            ret |-> privsTopics_get(Store, tid, uid)])

NextPriv ==
    \/ \E privilege \in Privileges, tid \in Tids, uids \in ListsOf(Members) :
            FilterUids(privilege, tid, uids)
    \/ \E privilege \in Privileges, tids \in TidsArgs, uid \in Uids :
            FilterTids(privilege, tids, uid)
    \/ \E tid \in Tids, uid \in Uids : Get(tid, uid)

SpecPriv == InitPriv /\ [][NextPriv]_vars

-----------------------------------------------------------------------------
(* Reply threading *)

PreviewLimit == 6   \* getPostReplies stops collecting users at PreviewLimit

\* user.blocks.filter(callerUid, replies): the replies of users the caller has blocked go
RECURSIVE user_blocks_filter(_, _)
user_blocks_filter(blocked, replies) ==
    IF replies = <<>> THEN <<>>
    ELSE (IF Head(replies).uid \in blocked THEN <<>> ELSE <<Head(replies)>>)
            \o user_blocks_filter(blocked, Tail(replies))

\* replyPids.filter(pid => pidMap[pid])
RECURSIVE FilterPids(_, _)
FilterPids(replyPids, pidMap) ==
    IF replyPids = <<>> THEN <<>>
    ELSE (IF Head(replyPids) \in DOMAIN pidMap THEN <<Head(replyPids)>> ELSE <<>>)
            \o FilterPids(Tail(replyPids), pidMap)

\* replyPids.sort((a, b) => parseInt(a, 10) - parseInt(b, 10)): ascending pids
RECURSIVE SortPids(_)
SortPids(replyPids) ==
    IF replyPids = <<>> THEN <<>>
    ELSE LET least == CHOOSE i \in 1..Len(replyPids) :
                        \A j \in 1..Len(replyPids) :
                            replyPids[i] < replyPids[j] \/ (replyPids[i] = replyPids[j] /\ i <= j)
         IN <<replyPids[least]>> \o SortPids(Splice1(replyPids, least - 1))

\* replyPids.forEach: a user not used yet is pushed while fewer than PreviewLimit are held
RECURSIVE CollectUsers(_, _, _, _)
CollectUsers(replyPids, pidMap, users, uidsUsed) ==
    IF replyPids = <<>> THEN users
    ELSE LET replyData == pidMap[Head(replyPids)]
         IN IF replyData.uid \notin uidsUsed /\ Len(users) < PreviewLimit
            THEN CollectUsers(Tail(replyPids), pidMap, Append(users, replyData.uid),
                              uidsUsed \cup {replyData.uid})
            ELSE CollectUsers(Tail(replyPids), pidMap, users, uidsUsed)

\* getPostReplies keeping every user it has collected
getPostReplies_NoPop(replyPids, posts, blocked) ==
    LET replyData == user_blocks_filter(blocked, [i \in 1..Len(replyPids) |-> posts[replyPids[i]]])
        pidMap == [pid \in {replyData[i].pid : i \in 1..Len(replyData)} |-> posts[pid]]
        visible == FilterPids(replyPids, pidMap)
        users == CollectUsers(SortPids(visible), pidMap, <<>>, {})
    IN [hasMore |-> Len(users) > PreviewLimit - 1, users |-> users, count |-> Len(visible)]

\* getPostReplies for one parent post: replyPids are the members of pid:<pid>:replies as the
\* store lists them, posts the post hashes; users are given by their uid
getPostReplies(replyPids, posts, blocked) ==
    LET replyData == user_blocks_filter(blocked, [i \in 1..Len(replyPids) |-> posts[replyPids[i]]])
        pidMap == [pid \in {replyData[i].pid : i \in 1..Len(replyData)} |-> posts[pid]]
        visible == FilterPids(replyPids, pidMap)
        users == CollectUsers(SortPids(visible), pidMap, <<>>, {})
    IN  IF Len(users) > PreviewLimit - 1
        THEN [hasMore |-> TRUE, users |-> SubSeq(users, 1, Len(users) - 1), count |-> Len(visible)]
        ELSE [hasMore |-> FALSE, users |-> users, count |-> Len(visible)]

-----------------------------------------------------------------------------
(* State machine of reply threading *)

MaxReplies == 7     \* a parent post has up to MaxReplies replies

\* the repliers of n replies, numbered by the order of their first reply
RECURSIVE Repliers(_)
Repliers(n) ==
    IF n = 0 THEN {<<>>}
    ELSE UNION {{Append(us, u) : u \in 1..(Cardinality(Elements(us)) + 1)} :
                    us \in Repliers(n - 1)}

\* a parent post with its replies: the store lists them oldest first, and their pids rise
\* or fall with their age; the caller has blocked the first replier or nobody
InitReplies ==
    /\ InitStore
    /\ attached = {}
    /\ adds = 0
    /\ removes = 0
    /\ stray = FALSE
    /\ pending = <<>>
    /\ \E n \in 0..MaxReplies, rising \in BOOLEAN, blocked \in SUBSET {1} :
        \E us \in Repliers(n) :
            LET pidAt(i) == IF rising THEN i ELSE n + 1 - i
            IN proc = << [pc |-> "call",
                          replyPids |-> [i \in 1..n |-> pidAt(i)],
                          posts |-> [pid \in 1..n |->
                                        [pid |-> pid,
                                         uid |-> us[IF rising THEN pid ELSE n + 1 - pid]]],
                          blocked |-> blocked,
                          ret |-> [hasMore |-> FALSE, users |-> <<>>, count |-> 0]] >>

\* the call runs
GetPostReplies ==
    /\ proc[1].pc = "call"
    /\ proc' = << [proc[1] EXCEPT
                    !.pc = "done",
                    !.ret = getPostReplies(proc[1].replyPids, proc[1].posts, proc[1].blocked)] >>
    /\ UNCHANGED <<storeVars, now, attached, adds, removes, stray, pending>>

NextReplies == GetPostReplies

SpecReplies == InitReplies /\ [][NextReplies]_vars

-----------------------------------------------------------------------------
(* Backlinks: the topics that the content of a post links to *)

\* pid:<pid>:backlinks
BacklinksKey(pid) == "pid:" \o ToString(pid) \o ":backlinks"

\* matches.map(match => match[1]).map(tid => parseInt(tid, 10)): the content is held as the
\* texts that backlinkRegex captured, in order
RECURSIVE LinkedTids(_)
LinkedTids(matches) ==
    IF matches = <<>> THEN <<>>
    ELSE <<parseInt(Str(Head(matches))).num>> \o LinkedTids(Tail(matches))

\* Array.prototype.filter(x => !others.includes(x))
RECURSIVE Without(_, _)
Without(seq, others) ==
    IF seq = <<>> THEN <<>>
    ELSE (IF Head(seq) \in Elements(others) THEN <<>> ELSE <<Head(seq)>>)
         \o Without(Tail(seq), others)

\* db.sortedSetRemove(key, members)
RECURSIVE sortedSetRemoveAll(_, _, _)
sortedSetRemoveAll(z, key, members) ==
    IF members = <<>> THEN z
    ELSE sortedSetRemoveAll(sortedSetRemove(z, key, Head(members)), key, Tail(members))

\* db.sortedSetAdd(key, members.map(() => score), members)
RECURSIVE sortedSetAddAll(_, _, _, _)
sortedSetAddAll(z, key, score, members) ==
    IF members = <<>> THEN z
    ELSE sortedSetAddAll(sortedSetAdd(z, key, score, Head(members)), key, score, Tail(members))

\* Promise.all(add.map(tid => Topics.events.log(tid, {uid, type: 'backlink'}))): each event
\* goes to the log of another topic
RECURSIVE LogBacklinks(_, _, _)
LogBacklinks(st, add, uid) ==
    IF add = <<>> THEN st
    ELSE LogBacklinks(eventsLog(st, Head(add), "backlink", uid), Tail(add), uid)

\* the number that an arithmetic operator makes of an array: through its text, so that the
\* empty array is 0, an array of one number is that number and a longer one is NaN
ArrayToNumber(seq) ==
    IF seq = <<>> THEN Finite(0) ELSE IF Len(seq) = 1 THEN Finite(seq[1]) ELSE NaN

\* add.length + (current - remove)
BacklinkResult(add, current, remove) ==
    IF ArrayToNumber(current).nan \/ ArrayToNumber(remove).nan THEN NaN
    ELSE Finite(Len(add) + (ArrayToNumber(current).num - ArrayToNumber(remove).num))

\* Topics.syncBacklinks without the removal of the stale backlinks
Topics_syncBacklinks_KeepStale(st, postData) ==
    LET key == BacklinksKey(postData.pid)
        linked == Uniq(LinkedTids(postData.content))
        topicsExist == [i \in 1..Len(linked) |-> Exists(st, linked[i])]
        current == getSortedSetRange(st.zset, key)
        remove == Without(current, linked)
        add == FilterByIndex(linked,
                    [i \in 1..Len(linked) |->
                        /\ topicsExist[i]
                        /\ linked[i] \notin Elements(current)
                        /\ postData.tid # linked[i]], 1)
        added == [st EXCEPT !.zset = sortedSetAddAll(@, key, now, add)]
    IN  Returning(Ok(LogBacklinks(added, add, postData.uid)),
                  BacklinkResult(add, current, remove))

\* Topics.syncBacklinks
Topics_syncBacklinks(st, postData) ==
    LET key == BacklinksKey(postData.pid)
        linked == Uniq(LinkedTids(postData.content))
        topicsExist == [i \in 1..Len(linked) |-> Exists(st, linked[i])]
        current == getSortedSetRange(st.zset, key)
        remove == Without(current, linked)
        add == FilterByIndex(linked,
                    [i \in 1..Len(linked) |->
                        /\ topicsExist[i]
                        /\ linked[i] \notin Elements(current)
                        /\ postData.tid # linked[i]], 1)
        removed == [st EXCEPT !.zset = sortedSetRemoveAll(@, key, remove)]
        added == [removed EXCEPT !.zset = sortedSetAddAll(@, key, now, add)]
    IN  Returning(Ok(LogBacklinks(added, add, postData.uid)),
                  BacklinkResult(add, current, remove))

(* State machine of the backlinks *)

MaxLinks == 2       \* links in the content of a post

\* the topic ids a link can name: the topics of the forum and one that does not exist
LinkTids == Tids \cup {3}
\* the text of a topic id as a link holds it
LinkTexts == {<<"1">>, <<"2">>, <<"3">>, <<"0", "2">>}
\* the captures of the links of a content, in order
RECURSIVE ContentsOf(_)
ContentsOf(n) ==
    IF n = 0 THEN {<<>>}
    ELSE ContentsOf(n - 1)
         \cup {Append(c, l) : c \in {c \in ContentsOf(n - 1) : Len(c) = n - 1}, l \in LinkTexts}
Contents == ContentsOf(MaxLinks)
\* the posts whose content is edited: post 1 sits in topic 1, post 2 in topic 2
BacklinkPids == {1, 2}
PostData(pid, content) ==
    [pid |-> pid, uid |-> PostUid(pid), tid |-> pid, content |-> content]

\* topics 1 and 2 as created, topic 3 absent, no backlink recorded
InitBacklinks ==
    /\ topic = [t \in LinkTids |-> IF t \in Tids THEN NewTopic(t) ELSE <<>>]
    /\ zset = [k \in ZKeys \cup {BacklinksKey(p) : p \in BacklinkPids} |->
                    IF k \in ZKeys THEN InitZset([t \in Tids |-> NewTopic(t)])[k] ELSE <<>>]
    /\ events = [t \in LinkTids |-> <<>>]
    /\ category = [c \in Cids |-> [topic_count |-> IF c = 1 THEN Cardinality(Tids) ELSE 0]]
    /\ now = 1
    /\ InitPostsIdle

\* the content of a post of a topic that exists is saved
SyncBacklinks(pid, content) ==
    /\ Exists(Store, PostData(pid, content).tid)
    /\ Commit(Topics_syncBacklinks(Store, PostData(pid, content)))

\* the administrator purges a topic: the backlinks of the posts of other topics stay
PurgeLinked(tid) ==
    LET r == topicTools_purge(Store, tid, 1)
    IN  Commit([r EXCEPT !.st.zset = [k \in DOMAIN @ |->
                    IF k \in ZKeys THEN @[k] ELSE Store.zset[k]]])

NextBacklinks ==
    \/ \E pid \in BacklinkPids, content \in Contents : SyncBacklinks(pid, content)
    \/ \E tid \in Tids : PurgeLinked(tid)
    \/ Tick

SpecBacklinks == InitBacklinks /\ [][NextBacklinks]_vars

-----------------------------------------------------------------------------
(* State machine of the category indices: pin, unpin and move *)

MaxToggles == 3     \* pin, unpin and move calls that succeed in one run

\* a topic that has been read, answered and voted on since it was created
BusyTopic(tid) ==
    [x \in DOMAIN NewTopic(tid) \cup {"upvotes", "downvotes", "viewcount"} |->
        CASE x = "postcount" -> 3
          [] x = "upvotes" -> 4
          [] x = "downvotes" -> 2
          [] x = "viewcount" -> 5
          [] OTHER -> NewTopic(tid)[x]]

\* topic 1 is new or busy, topic 2 is scheduled; both are filed in category 1, unpinned
InitIndex ==
    /\ \E tp \in {[t \in Tids |-> NewTopic(t)],
                  [t \in Tids |-> IF t = 1 THEN BusyTopic(t) ELSE NewTopic(t)]} :
            InitStoreOf(tp)
    /\ InitPostsIdle

\* a call runs to its end: what it leaves in the store
Toggle(r) ==
    /\ EventCount(r.st) <= MaxToggles
    /\ Apply(r)

NextIndex ==
    \/ \E tid \in Tids, uid \in Uids : Toggle(topicTools_pin(Store, tid, uid))
    \/ \E tid \in Tids, uid \in Uids : Toggle(topicTools_unpin(Store, tid, uid))
    \/ \E tid \in Tids, cid \in Cids, uid \in Movers : Toggle(topicTools_move(Store, tid, cid, uid))
    \/ Tick

SpecIndex == InitIndex /\ [][NextIndex]_vars

-----------------------------------------------------------------------------
(* State machine of the commands that run together: reorder, unpin, move *)

MaxRaces == 2       \* commands in flight at once

\* a command in flight: its arguments, its position, what it has read so far, and how many
\* commands had completed when it was called
Call(op, tid, uid, order, to) ==
    [op |-> op, tid |-> tid, uid |-> uid, order |-> order, to |-> to, pc |-> "called",
     data |-> <<>>, cid |-> 0, pinnedTids |-> <<>>, todo |-> {}, stage |-> 0, out |-> "",
     after |-> Cardinality({i \in 1..Len(proc) : proc[i].pc = "done"})]

\* the command returns or throws
Settle(c, out) == [c EXCEPT !.pc = "done", !.out = out]
\* every command has returned or thrown
AllDone == \A i \in 1..Len(proc) : proc[i].pc = "done"
\* the command i moves on and the store becomes st
Step(i, c, st) ==
    /\ proc' = [proc EXCEPT ![i] = c]
    /\ SetStore(st)
    /\ UNCHANGED <<now, attached, adds, removes, stray, pending>>
\* a command is called, and runs up to what its first read returns
Called(c) ==
    /\ Len(proc) < MaxRaces
    /\ proc' = Append(proc, c)
    /\ UNCHANGED <<storeVars, now, attached, adds, removes, stray, pending>>

\* pinnedTids after the two splices of orderPinnedTopics
Spliced(pinnedTids, tid, order) ==
    LET newOrder == Len(pinnedTids) - order - 1
    IN  IF Len(pinnedTids) > 1
        THEN InsertAt(Splice1(pinnedTids, IndexOf(pinnedTids, tid)),
                      IF newOrder < 0 THEN 0 ELSE newOrder, tid)
        ELSE pinnedTids

\* orderPinnedTopics: const cid = await Topics.getTopicField(tid, 'cid'), and the guard
OrderCid(uid, tid, order) ==
    LET c == [Call("order", tid, uid, order, 0) EXCEPT !.cid = Field(Store, tid, "cid")]
    IN  Called(IF c.cid = 0 \/ order < 0 THEN Settle(c, "invalid-data")
               ELSE [c EXCEPT !.pc = "isAdminOrMod"])
\* await privileges.categories.isAdminOrMod(cid, uid)
OrderAuthorize(i) ==
    /\ proc[i].op = "order" /\ proc[i].pc = "isAdminOrMod"
    /\ Step(i, IF privsCategories_isAdminOrMod(proc[i].cid, proc[i].uid)
               THEN [proc[i] EXCEPT !.pc = "getSortedSetRange"]
               ELSE Settle(proc[i], "no-privileges"), Store)
\* await db.getSortedSetRange(`cid:${cid}:tids:pinned`, 0, -1), and the early return
OrderRead(i) ==
    /\ proc[i].op = "order" /\ proc[i].pc = "getSortedSetRange"
    /\ LET pinnedTids == getSortedSetRange(zset, CidKey(proc[i].cid, ":tids:pinned"))
       IN  Step(i, IF IndexOf(pinnedTids, proc[i].tid) = -1
                   THEN Settle(proc[i], "ok")
                   ELSE [proc[i] EXCEPT !.pc = "sortedSetAdd", !.pinnedTids = pinnedTids],
                Store)
\* await db.sortedSetAdd(`cid:${cid}:tids:pinned`, indices, pinnedTids)
OrderWrite(i) ==
    /\ proc[i].op = "order" /\ proc[i].pc = "sortedSetAdd"
    /\ Step(i, [Settle(proc[i], "ok") EXCEPT !.stage = 1],
            [Store EXCEPT !.zset =
                sortedSetAddIndexed(@, CidKey(proc[i].cid, ":tids:pinned"),
                    Spliced(proc[i].pinnedTids, proc[i].tid, proc[i].order), 1)])

\* togglePin(tid, uid, false): const topicData = await Topics.getTopicData(tid), and the
\* guards on it
UnpinRead(uid, tid) ==
    LET c == [Call("unpin", tid, uid, 0, 0) EXCEPT !.data = topic[tid]]
    IN  Called(IF ~Exists(Store, tid) THEN Settle(c, "no-topic")
               ELSE IF Scheduled(Store, tid) THEN Settle(c, "cant-pin-scheduled")
               ELSE [c EXCEPT !.pc = "isAdminOrMod"])
\* await privileges.topics.isAdminOrMod(tid, uid), await user.isInstructor(uid); the
\* writes are issued together
UnpinAuthorize(i) ==
    /\ proc[i].op = "unpin" /\ proc[i].pc = "isAdminOrMod"
    /\ Step(i, IF privsTopics_isAdminOrMod(Store, proc[i].tid, proc[i].uid)
                  \/ User_isInstructor(proc[i].uid)
               THEN [proc[i] EXCEPT !.pc = "Promise.all", !.stage = 1,
                                    !.todo = Stages("unpin")[1]]
               ELSE Settle(proc[i], "no-privileges"), Store)
\* one of the writes issued together completes; the command returns after the last one
WriteCompletes(i, e) ==
    /\ proc[i].pc = "Promise.all"
    /\ e \in proc[i].todo
    /\ Step(i, IF proc[i].todo # {e} THEN [proc[i] EXCEPT !.todo = @ \ {e}]
               ELSE IF proc[i].stage < Len(Stages(proc[i].op))
               THEN [proc[i] EXCEPT !.stage = @ + 1, !.todo = Stages(proc[i].op)[proc[i].stage + 1]]
               ELSE [Settle(proc[i], "ok") EXCEPT !.todo = {}],
            Effect(Store, proc[i], e))

(* State machine of a reorder racing an unpin *)

\* both topics are in category 1, neither is pinned nor scheduled any more; no command is
\* in flight
InitReorder ==
    /\ LET tp == [t \in Tids |-> NewTopic(t)]
       IN  /\ topic = tp
           /\ zset = InitZset(tp)
           /\ events = [t \in Tids |-> <<>>]
           /\ category = [c \in Cids |-> [topic_count |-> IF c = 1 THEN Cardinality(Tids) ELSE 0]]
    /\ now = MaxNow
    /\ InitPostsIdle

\* before the commands that race, the administrator pins a topic
PinFirst(tid) == proc = <<>> /\ PinUnpinned(tid)

\* one unpin races the reorders
OneUnpin == \A i \in 1..Len(proc) : proc[i].op # "unpin"

\* the positions a reorder asks for
RaceOrders == {0, 1}

NextReorder ==
    \/ \E tid \in Tids : PinFirst(tid)
    \/ \E uid \in Callers, tid \in Tids, order \in RaceOrders : OrderCid(uid, tid, order)
    \/ \E uid \in Callers, tid \in Tids : OneUnpin /\ UnpinRead(uid, tid)
    \/ \E i \in 1..Len(proc) : OrderAuthorize(i)
    \/ \E i \in 1..Len(proc) : OrderRead(i)
    \/ \E i \in 1..Len(proc) : OrderWrite(i)
    \/ \E i \in 1..Len(proc) : UnpinAuthorize(i)
    \/ \E i \in 1..Len(proc), e \in Stages("unpin")[1] : WriteCompletes(i, e)

SpecReorder == InitReorder /\ [][NextReorder]_vars

(* State machine of moves racing each other *)

\* the categories of the forum and a third one, which is empty
MoveCids == Cids \cup {3}
\* the topic that is moved
MovedTids == {1}

\* the indices of three categories; the topics are filed in category 1
InitMoves ==
    /\ LET tp == [t \in Tids |-> NewTopic(t)]
           keys == ZKeys \cup {CidKey(3, s) : s \in CidSuffixes}
                         \cup {CidUidKey(3, TopicOwner(t)) : t \in Tids}
                         \cup {CidTagKey(3, g) : g \in UNION {TopicTags(t) : t \in Tids}}
       IN  /\ topic = tp
           /\ zset = [k \in keys |-> IF k \in ZKeys THEN InitZset(tp)[k] ELSE <<>>]
           /\ events = [t \in Tids |-> <<>>]
           /\ category = [c \in MoveCids |->
                            [topic_count |-> IF c = 1 THEN Cardinality(Tids) ELSE 0]]
    /\ now = 1
    /\ InitPostsIdle

\* topicTools.move: const topicData = await Topics.getTopicData(tid), its guards, and
\* await Topics.getTopicTags(tid); the writes follow, stage by stage
MoveRead(uid, tid, to) ==
    LET c == [Call("move", tid, uid, 0, to) EXCEPT !.data = topic[tid],
                                                  !.cid = Field(Store, tid, "cid")]
    IN  Called(IF ~Exists(Store, tid) THEN Settle(c, "no-topic")
               ELSE IF to = c.cid THEN Settle(c, "cant-move-topic-to-same-category")
               ELSE [c EXCEPT !.pc = "Promise.all", !.stage = 1, !.todo = Stages("move")[1]])

NextMoves ==
    \/ \E uid \in Movers, tid \in MovedTids, to \in MoveCids : MoveRead(uid, tid, to)
    \/ \E i \in 1..Len(proc), e \in UNION Elements(Stages("move")) : WriteCompletes(i, e)

SpecMoves == InitMoves /\ [][NextMoves]_vars

(* State machine of addPostToTopic and removePostFromTopic racing each other *)

\* a call in flight: its arguments, its position, the mainPid and the cardinality it has
\* read, and how many calls had completed when it was made
PostCall(op, tid, pid) ==
    [op |-> op, tid |-> tid, pid |-> pid, pc |-> "called", mainPid |-> 0, posterCount |-> 0,
     out |-> "", after |-> Cardinality({i \in 1..Len(proc) : proc[i].pc = "done"})]

\* no call in flight is about the post
Free(pid) == \A i \in 1..Len(proc) : proc[i].pid = pid => proc[i].pc = "done"

\* addPostToTopic: const mainPid = await Topics.getTopicField(tid, 'mainPid')
AddCalled(tid, pid) ==
    /\ pid \notin attached /\ Free(pid)
    /\ Called([PostCall("add", tid, pid) EXCEPT !.pc = "attach",
                                               !.mainPid = Field(Store, tid, "mainPid")])
\* await Topics.setTopicField(tid, 'mainPid', pid), or await db.sortedSetsAdd(...)
AddAttach(i) ==
    /\ proc[i].pc = "attach"
    /\ Step(i, [proc[i] EXCEPT !.pc = "increasePostCount"],
            AttachPost(Store, proc[i].tid, Post(proc[i].pid), proc[i].mainPid))
\* await Topics.increasePostCount(tid) / decreasePostCount(tid) starts the counter run;
\* then user.isInstructor, which removePostFromTopic does not await
CountStarts(i) ==
    /\ proc[i].pc \in {"increasePostCount", "decreasePostCount"}
    /\ Len(pending) < MaxPending
    /\ pending' = Append(pending, IF proc[i].op = "add" THEN Topics_increasePostCount(proc[i].tid)
                                  ELSE Topics_decreasePostCount(proc[i].tid))
    /\ proc' = [proc EXCEPT ![i].pc =
                    IF proc[i].op = "add"
                    THEN (IF User_isInstructor(Post(proc[i].pid).uid)
                          THEN "increaseInstructorCount" ELSE "sortedSetIncrBy")
                    ELSE (IF PromiseTruthy(Post(proc[i].pid).uid)
                          THEN "decreaseInstructorCount" ELSE "sortedSetIncrBy")]
    /\ UNCHANGED <<storeVars, now, attached, adds, removes, stray>>
\* await Topics.increaseInstructorCount(tid) / decreaseInstructorCount(tid)
InstructorCounted(i) ==
    /\ proc[i].pc \in {"increaseInstructorCount", "decreaseInstructorCount"}
    /\ Step(i, [proc[i] EXCEPT !.pc = "sortedSetIncrBy"],
            IF proc[i].op = "add" THEN Topics_increaseInstructorCount(Store, proc[i].tid)
            ELSE Topics_decreaseInstructorCount(Store, proc[i].tid))
\* await db.sortedSetIncrBy(`tid:${tid}:posters`, 1 or -1, postData.uid)
Tallied(i) ==
    /\ proc[i].pc = "sortedSetIncrBy"
    /\ Step(i, [proc[i] EXCEPT !.pc = IF proc[i].op = "add" THEN "sortedSetCard"
                                      ELSE "sortedSetsRemoveRangeByScore"],
            TallyPoster(Store, proc[i].tid, Post(proc[i].pid),
                        IF proc[i].op = "add" THEN 1 ELSE -1))
\* removePostFromTopic: await db.sortedSetsRemoveRangeByScore([`tid:${tid}:posters`], '-inf', 0)
Pruned(i) ==
    /\ proc[i].pc = "sortedSetsRemoveRangeByScore"
    /\ Step(i, [proc[i] EXCEPT !.pc = "sortedSetCard"],
            [Store EXCEPT !.zset =
                sortedSetRemoveRangeByScore(@, TidKey(proc[i].tid, ":posters"), 0)])
\* const posterCount = await db.sortedSetCard(`tid:${tid}:posters`)
CardRead(i) ==
    /\ proc[i].pc = "sortedSetCard"
    /\ Step(i, [proc[i] EXCEPT !.pc = "setTopicField",
                               !.posterCount = PosterCard(Store, proc[i].tid)], Store)
\* await Topics.setTopicField(tid, 'postercount', posterCount); the call returns
CardWritten(i) ==
    /\ proc[i].pc = "setTopicField"
    /\ proc' = [proc EXCEPT ![i] = Settle(proc[i], "ok")]
    /\ SetStore(SetPosterCount(Store, proc[i].tid, proc[i].posterCount))
    /\ attached' = IF proc[i].op = "add" THEN attached \cup {proc[i].pid}
                   ELSE attached \ {proc[i].pid}
    /\ adds' = IF proc[i].op = "add" THEN adds + 1 ELSE adds
    /\ removes' = IF proc[i].op = "add" THEN removes ELSE removes + 1
    /\ UNCHANGED <<now, stray, pending>>
\* removePostFromTopic of an attached post: await db.sortedSetsRemove([posts, votes], pid)
RemoveCalled(tid, pid) ==
    /\ pid \in attached /\ Free(pid)
    /\ Len(proc) < MaxRaces
    /\ proc' = Append(proc, [PostCall("remove", tid, pid) EXCEPT !.pc = "decreasePostCount"])
    /\ SetStore([Store EXCEPT !.zset =
                    sortedSetsRemove(@, {TidKey(tid, ":posts"), TidKey(tid, ":posts:votes")}, pid)])
    /\ UNCHANGED <<now, attached, adds, removes, stray, pending>>

\* topic 1 holds its root post, post 1 of its owner, and no reply yet
InitTally ==
    /\ InitDeleteOf([t \in Tids |->
            [f \in DOMAIN NewTopic(t) \cup {"postercount"} |->
                IF f = "postercount" THEN 1 ELSE NewTopic(t)[f]]])
    /\ attached = {Field(Store, t, "mainPid") : t \in PostTids}
    /\ adds = 0
    /\ removes = 0
    /\ stray = FALSE
    /\ pending = <<>>
    /\ proc = <<>>

\* the posts of the calls that race: the root post and two replies of the instructor
TallyPids == {1, 2, 3}

NextTally ==
    \/ \E tid \in PostTids, pid \in TallyPids : AddCalled(tid, pid)
    \/ \E tid \in PostTids, pid \in TallyPids : RemoveCalled(tid, pid)
    \/ \E i \in 1..Len(proc) : AddAttach(i)
    \/ \E i \in 1..Len(proc) : CountStarts(i)
    \/ \E i \in 1..Len(proc) : InstructorCounted(i)
    \/ \E i \in 1..Len(proc) : Tallied(i)
    \/ \E i \in 1..Len(proc) : Pruned(i)
    \/ \E i \in 1..Len(proc) : CardRead(i)
    \/ \E i \in 1..Len(proc) : CardWritten(i)
    \/ \E i \in 1..MaxPending : Detached(i)

SpecTally == InitTally /\ [][NextTally]_vars

-----------------------------------------------------------------------------
(* Reply threading: the posts of a topic *)

\* Topics.getPids: the root post, when the topic has one, ahead of the reply index
Topics_getPids(st, tid) ==
    LET mainPid == Field(st, tid, "mainPid")
        pids == getSortedSetRange(st.zset, TidKey(tid, ":posts"))
    IN  IF mainPid # 0 THEN <<mainPid>> \o pids ELSE pids

-----------------------------------------------------------------------------
(* The batch command of the API *)

\* what a request carries as tids: an array of tids, or something that is no array
Batch(items) == [kind |-> "array", items |-> items]
NoArray(kind) == [kind |-> kind, items |-> <<>>]
\* typeof topics.tools[action] === 'function', for the tools that take (tid, uid)
IsTool(action) == action \in {"delete", "restore", "purge", "lock", "unlock", "pin", "unpin"}
\* topics.tools[action](tid, caller.uid)
topicsTools(st, action, tid, uid) ==
    CASE action = "delete" -> topicTools_delete(st, tid, uid)
      [] action = "restore" -> topicTools_restore(st, tid, uid)
      [] action = "purge" -> topicTools_purge(st, tid, uid)
      [] action = "lock" -> topicTools_lock(st, tid, uid)
      [] action = "unlock" -> topicTools_unlock(st, tid, uid)
      [] action = "pin" -> topicTools_pin(st, tid, uid)
      [] action = "unpin" -> topicTools_unpin(st, tid, uid)

\* logTopicAction: delete, restore and purge go to the system event log
logTopicAction(log, action, uid, tid) ==
    IF action \notin {"delete", "restore", "purge"} THEN log
    ELSE Append(log, [type |-> "topic-" \o action, uid |-> uid, tid |-> tid])

\* one callback of tids.map: the tool, and the system event once the tool returned
TopicTask(acc, action, uid, tid) ==
    LET data == topicsTools(acc.st, action, tid, uid)
    IN  IF data.out # "ok"
        THEN [acc EXCEPT !.st = data.st, !.errors = @ \cup {data.out}]
        ELSE [acc EXCEPT !.st = data.st, !.log = logTopicAction(@, action, uid, tid)]
\* Promise.all(tids.map(...)): every callback runs, also after another one has thrown;
\* the callbacks are for different topics, so they are taken in the order of the array
RECURSIVE TopicTasks(_, _, _, _)
TopicTasks(acc, action, uid, tids) ==
    IF tids = <<>> THEN acc
    ELSE TopicTasks(TopicTask(acc, action, uid, Head(tids)), action, uid, Tail(tids))

\* exports.doTopicAction: the store it leaves, the errors its callbacks threw (the call
\* throws one of them, and returns when there is none) and what it wrote to the system
\* event log
doTopicAction_ActsBeforeChecking(st, action, uid, tids) ==
    IF tids.kind # "array" THEN [st |-> st, errors |-> {"invalid-tid"}, log |-> <<>>]
    ELSE IF ~IsTool(action) THEN [st |-> st, errors |-> {}, log |-> <<>>]
    ELSE LET live == SelectSeq(tids.items, LAMBDA tid : Exists(st, tid))
             done == TopicTasks([st |-> st, errors |-> {}, log |-> <<>>], action, uid, live)
         IN  IF live # tids.items THEN [done EXCEPT !.errors = {"no-topic"}] ELSE done
doTopicAction(st, action, uid, tids) ==
    IF tids.kind # "array" THEN [st |-> st, errors |-> {"invalid-tid"}, log |-> <<>>]
    ELSE IF \E i \in 1..Len(tids.items) : ~Exists(st, tids.items[i])
    THEN [st |-> st, errors |-> {"no-topic"}, log |-> <<>>]
    ELSE IF ~IsTool(action) THEN [st |-> st, errors |-> {}, log |-> <<>>]
    ELSE TopicTasks([st |-> st, errors |-> {}, log |-> <<>>], action, uid, tids.items)

(* State machine of the batch command *)

\* the action names a request carries: the tools, and a name that is no tool
BatchActions == {"delete", "restore", "purge", "lock", "unlock", "pin", "unpin", "follow"}
\* the tids a request carries: arrays of different tids, a number, nothing
Batches ==
    {Batch(<<>>)} \cup {Batch(<<t>>) : t \in Tids}
    \cup {Batch(<<p[1], p[2]>>) : p \in {q \in Tids \X Tids : q[1] # q[2]}}
    \cup {NoArray("number"), NoArray("undefined")}

\* a request runs to its end; proc is the system event log
DoTopicAction(action, uid, tids) ==
    LET r == doTopicAction(Store, action, uid, tids)
    IN  /\ EventCount(r.st) <= MaxEvents
        /\ topic' = r.st.topic
        /\ zset' = r.st.zset
        /\ events' = r.st.events
        /\ category' = r.st.category
        /\ proc' = proc \o r.log
        /\ UNCHANGED <<now, attached, adds, removes, stray, pending>>

NextBatch ==
    \/ \E action \in BatchActions, uid \in Callers, tids \in Batches :
            DoTopicAction(action, uid, tids)
    \/ Tick

SpecBatch == Init /\ [][NextBatch]_vars

-----------------------------------------------------------------------------
(* The role queries of a user *)

\* what a caller may pass where a uid is expected and no value was given
Undefined == [type |-> "undefined", num |-> 0, chars |-> <<>>]

\* privileges.users.isAdministrator / isGlobalModerator: membership of the group; the
\* groups hold registered users only
privsUsers_isAdministrator(roles, uid) == uid.num \in roles.admins
privsUsers_isGlobalModerator(roles, uid) == uid.num \in roles.globalMods
\* User.isAdministrator / User.isGlobalModerator
User_isAdministrator(roles, uid) ==
    IF uid.type # "number" THEN FALSE ELSE privsUsers_isAdministrator(roles, uid)
User_isGlobalModerator(roles, uid) ==
    IF uid.type # "number" THEN FALSE ELSE privsUsers_isGlobalModerator(roles, uid)
\* User.getModeratedCids: none for uid <= 0, else the categories the user moderates
User_getModeratedCids(roles, uid) ==
    IF ~parseInt(uid).nan /\ parseInt(uid).num <= 0 THEN {}
    ELSE {cid \in Cids : <<uid.num, cid>> \in roles.mods}
\* User.isModeratorOfAnyCategory
User_isModeratorOfAnyCategory(roles, uid) ==
    IF uid.type # "number" THEN FALSE ELSE User_getModeratedCids(roles, uid) # {}

\* User.isPrivileged
User_isPrivileged(roles, uid) ==
    IF uid.type # "number" THEN TRUE
    ELSE IF ~(~parseInt(uid).nan /\ parseInt(uid).num > 0) THEN FALSE
    ELSE \/ User_isAdministrator(roles, uid)
         \/ User_isGlobalModerator(roles, uid)
         \/ User_isModeratorOfAnyCategory(roles, uid)
\* User.isAdminOrGlobalMod
User_isAdminOrGlobalMod(roles, uid) ==
    IF uid.type # "number" THEN TRUE
    ELSE User_isAdministrator(roles, uid) \/ User_isGlobalModerator(roles, uid)

(* State machine of the role queries *)

MaxRoleUid == 2     \* the registered users 1..MaxRoleUid can be given a role

RoleUids == 1..MaxRoleUid
\* who holds which role
Roles ==
    [admins : SUBSET RoleUids, globalMods : SUBSET RoleUids,
     mods : SUBSET (RoleUids \X {1})]
\* what is passed as uid: the guest and a negative uid, the registered users and one more
\* number, the uid of a registered user as a string, other strings, and nothing
UidArgs ==
    {Num(n) : n \in (-1)..(MaxRoleUid + 1)}
    \cup {Str(<<"1">>), Str(<<"0">>), Str(<<"a">>), Str(<<>>), Undefined}

InitRoles ==
    /\ InitStore
    /\ attached = {}
    /\ adds = 0
    /\ removes = 0
    /\ stray = FALSE
    /\ pending = <<>>
    /\ \E fn \in {"isPrivileged", "isAdminOrGlobalMod"}, roles \in Roles, uid \in UidArgs :
            proc = << [pc |-> "call", fn |-> fn, roles |-> roles, uid |-> uid, ret |-> FALSE] >>

\* the query runs
IsPrivileged ==
    /\ proc[1].pc = "call" /\ proc[1].fn = "isPrivileged"
    /\ proc' = << [proc[1] EXCEPT !.pc = "done",
                                  !.ret = User_isPrivileged(proc[1].roles, proc[1].uid)] >>
    /\ UNCHANGED <<storeVars, now, attached, adds, removes, stray, pending>>
IsAdminOrGlobalMod ==
    /\ proc[1].pc = "call" /\ proc[1].fn = "isAdminOrGlobalMod"
    /\ proc' = << [proc[1] EXCEPT !.pc = "done",
                                  !.ret = User_isAdminOrGlobalMod(proc[1].roles, proc[1].uid)] >>
    /\ UNCHANGED <<storeVars, now, attached, adds, removes, stray, pending>>

NextRoles == IsPrivileged \/ IsAdminOrGlobalMod

SpecRoles == InitRoles /\ [][NextRoles]_vars

-----------------------------------------------------------------------------
(* Properties of pinning *)

Last(seq) == seq[Len(seq)]
Privileged(st, tid, uid) ==
    IsAdministrator(uid) \/ IsModerator(uid, Field(st, tid, "cid"))
Flag(st, tid, field) == Field(st, tid, field)

\* C1: on every existing topic that is not scheduled, pin and unpin by an instructor
\* who is neither administrator nor moderator of the topic's category succeed and leave
\* the pinned flag at the requested value; by a numeric user who is none of
\* administrator, category moderator or instructor they throw no-privileges and leave
\* every field, index and event log as it was.
C1_InstructorPinExtension ==
    \A tid \in Tids, uid \in Uids, pin \in BOOLEAN :
        LET r == IF pin THEN topicTools_pin(Store, tid, uid)
                        ELSE topicTools_unpin(Store, tid, uid)
        IN  (Exists(Store, tid) /\ ~Scheduled(Store, tid) /\ ~Privileged(Store, tid, uid)) =>
                IF User_isInstructor(uid)
                THEN /\ r.out = "ok"
                     /\ Flag(r.st, tid, "pinned") = (IF pin THEN 1 ELSE 0)
                     /\ (tid \in DOMAIN r.st.zset[CidKey(Field(Store, tid, "cid"), ":tids:pinned")]) = pin
                ELSE /\ r.out = "no-privileges"
                     /\ r.st = Store

\* an instructor has pinned a topic, and in that state an ordinary user's unpin is refused
C1_Witness ==
    \E tid \in Tids :
        /\ Flag(Store, tid, "pinned") = 1
        /\ events[tid] # <<>>
        /\ Last(events[tid]).type = "pin"
        /\ User_isInstructor(Last(events[tid]).uid)
        /\ ~Privileged(Store, tid, Last(events[tid]).uid)
        /\ \E uid \in Uids :
            /\ uid > 0 /\ ~Privileged(Store, tid, uid) /\ ~User_isInstructor(uid)
            /\ topicTools_unpin(Store, tid, uid).out = "no-privileges"

\* C2: checkPinExpiry(tids) completes without throwing; every listed topic that is
\* pinned with a pinExpiry at or before now is unpinned by it (pinned = 0, pinExpiry
\* cleared, absent from the returned list), and every topic whose pinExpiry is absent
\* or in the future is returned and left unchanged.
C2_PinExpirySweep ==
    \A tids \in TidLists :
        LET r == topicTools_checkPinExpiry(Store, tids)
            returned == {r.ret[i] : i \in 1..Len(r.ret)}
        IN  /\ r.out = "ok"
            /\ \A i \in 1..Len(tids) :
                LET tid == tids[i]
                    expiry == Field(Store, tid, "pinExpiry")
                IN  IF expiry # 0 /\ expiry <= now
                    THEN Flag(Store, tid, "pinned") = 1 =>
                            /\ Flag(r.st, tid, "pinned") = 0
                            /\ "pinExpiry" \notin DOMAIN r.st.topic[tid]
                            /\ tid \notin returned
                    ELSE /\ tid \in returned
                         /\ r.st.topic[tid] = topic[tid]

\* C3: pin on an existing topic whose timestamp is in the future throws
\* cant-pin-scheduled for every caller, privileged or not (the scheduled check comes
\* before the authorization check), and changes no field, index or event log.
C3_ScheduledPinImmune ==
    \A tid \in Tids, uid \in Uids :
        (Exists(Store, tid) /\ Scheduled(Store, tid)) =>
            LET r == topicTools_pin(Store, tid, uid)
            IN r.out = "cant-pin-scheduled" /\ r.st = Store

\* while one topic has been pinned, a scheduled topic refuses the pin of an
\* administrator and of an ordinary user alike
C3_Witness ==
    \E tid \in Tids, other \in Tids :
        /\ Exists(Store, tid) /\ Scheduled(Store, tid)
        /\ Flag(Store, other, "pinned") = 1
        /\ \E a \in Uids, u \in Uids :
            /\ IsAdministrator(a) /\ topicTools_pin(Store, tid, a).out = "cant-pin-scheduled"
            /\ u > 0 /\ ~Privileged(Store, tid, u) /\ ~User_isInstructor(u)
            /\ topicTools_pin(Store, tid, u).out = "cant-pin-scheduled"

\* C5 as stated: a topic that has a pinExpiry field has pinned = 1
C5_ExpiryImpliesPinned ==
    \A tid \in Tids : "pinExpiry" \in DOMAIN topic[tid] => Flag(Store, tid, "pinned") = 1

\* C5, amended: every unpin that completes leaves the topic without a pinExpiry field
\* (and with pinned = 0); setPinExpiry, which only sets the field, never changes pinned.
C5_UnpinClearsExpiry ==
    \A tid \in Tids, uid \in Uids :
        /\ LET r == topicTools_unpin(Store, tid, uid)
           IN r.out = "ok" =>
                "pinExpiry" \notin DOMAIN r.st.topic[tid] /\ Flag(r.st, tid, "pinned") = 0
        /\ \A expiry \in 1..(MaxNow + 1) :
            LET r == topicTools_setPinExpiry(Store, tid, Num(expiry), uid)
            IN Flag(r.st, tid, "pinned") = Flag(Store, tid, "pinned")

\* a pinned topic that carries a pinExpiry has been unpinned: the field is gone
C5_Witness ==
    \E tid \in Tids, uid \in Uids :
        /\ Flag(Store, tid, "pinned") = 1
        /\ "pinExpiry" \in DOMAIN topic[tid]
        /\ topicTools_unpin(Store, tid, uid).out = "ok"
        /\ "pinExpiry" \notin DOMAIN topicTools_unpin(Store, tid, uid).st.topic[tid]

-----------------------------------------------------------------------------
(* Properties of scheduled topics *)

FlagCalls == {"pin", "unpin", "lock", "unlock", "delete", "restore"}
FlagCall(op, st, tid, uid) ==
    CASE op = "pin" -> topicTools_pin(st, tid, uid)
      [] op = "unpin" -> topicTools_unpin(st, tid, uid)
      [] op = "lock" -> topicTools_lock(st, tid, uid)
      [] op = "unlock" -> topicTools_unlock(st, tid, uid)
      [] op = "delete" -> topicTools_delete(st, tid, uid)
      [] op = "restore" -> topicTools_restore(st, tid, uid)
SameFlags(a, b, tid) ==
    \A f \in {"pinned", "locked", "deleted"} : Flag(a, tid, f) = Flag(b, tid, f)

-----------------------------------------------------------------------------
(* Properties of the counters *)

PostCount(tid) == Field(Store, tid, "postcount")
Posters(tid) == zset[TidKey(tid, ":posters")]
ReplyIndex(tid) == DOMAIN zset[TidKey(tid, ":posts")]
AttachedAuthors == {PostUid(p) : p \in attached}

\* C6 as stated: whenever every addPostToTopic / removePostFromTopic call made so far
\* has returned, postcount equals the adds minus the removes, and the topic's score in
\* topics:posts is that same value
C6_PostCountIsAddsMinusRemoves ==
    \A tid \in PostTids :
        /\ PostCount(tid) = adds - removes
        /\ zset["topics:posts"][tid] = adds - removes

\* C7: as long as every removed post was attached when it was removed, after each call
\* postercount is the number of distinct authors of the attached posts, the tally of
\* each such author is the number of their attached posts, and no member of the tally
\* has a score of 0 or less.
C7_PosterCount ==
    \A tid \in PostTids :
        ~stray =>
            /\ Field(Store, tid, "postercount") = Cardinality(AttachedAuthors)
            /\ DOMAIN Posters(tid) = AttachedAuthors
            /\ \A u \in DOMAIN Posters(tid) :
                /\ Posters(tid)[u] > 0
                /\ Posters(tid)[u] = Cardinality({p \in attached : PostUid(p) = u})

\* two posts of one author are attached and the only post of another author has been
\* removed, which pruned that author from the tally
C7_Witness ==
    \E tid \in PostTids :
        /\ ~stray /\ removes > 0
        /\ Cardinality(attached) = 2
        /\ Cardinality(AttachedAuthors) = 1
        /\ Field(Store, tid, "postercount") = 1
        /\ \E p \in Pids \ attached : PostUid(p) \notin DOMAIN Posters(tid)

\* C8 as stated: postcount >= 0 and postercount >= 0 in every reachable state, stray
\* removals included
C8_CountsNonNegative ==
    \A tid \in PostTids :
        /\ PostCount(tid) >= 0
        /\ Field(Store, tid, "postercount") >= 0

\* C9 as stated: instructorcount is the number of attached posts written by an
\* instructor
C9_InstructorCount ==
    \A tid \in PostTids :
        Field(Store, tid, "instructorcount") =
            Cardinality({p \in attached : User_isInstructor(PostUid(p))})

\* C10 as stated: once mainPid is nonzero no step of any addPostToTopic call changes
\* it, however the calls interleave
C10_MainPidWrittenOnce ==
    [][\A tid \in PostTids :
        Field(Store, tid, "mainPid") # 0 => topic'[tid]["mainPid"] = topic[tid]["mainPid"]]_vars

\* C10, amended: a call decides by the mainPid it has read, not by the one stored when
\* it writes. A call that read a nonzero mainPid never changes mainPid and puts its
\* post into the reply index; a call that read no mainPid writes its own pid into
\* mainPid, overwriting whatever another call has stored since, and its post does not
\* enter the reply index. Nothing else changes mainPid.
C10_MainPidFollowsRead ==
    [][\A tid \in PostTids :
        /\ \A pid \in Pids :
            (At(pid, "attach") /\ proc'[pid].pc # "attach") =>
                IF proc[pid].mainPid # 0
                THEN /\ topic'[tid]["mainPid"] = topic[tid]["mainPid"]
                     /\ pid \in DOMAIN zset'[TidKey(tid, ":posts")]
                ELSE /\ topic'[tid]["mainPid"] = pid
                     /\ pid \notin DOMAIN zset'[TidKey(tid, ":posts")]
        /\ topic'[tid]["mainPid"] # topic[tid]["mainPid"] =>
                \E pid \in Pids : At(pid, "attach") /\ proc[pid].mainPid = 0
                                    /\ proc'[pid].pc # "attach"]_vars

\* two calls have both read no mainPid and both have written: the later write is
\* kept, and the post of the earlier writer is neither the root nor in the reply index
C10_Witness ==
    \E tid \in PostTids, p \in Pids, q \in Pids :
        /\ p # q
        /\ \A x \in {p, q} : x \in DOMAIN proc /\ proc[x].mainPid = 0 /\ proc[x].pc # "attach"
        /\ Field(Store, tid, "mainPid") = q
        /\ p \notin ReplyIndex(tid)

-----------------------------------------------------------------------------
(* Properties of delete and restore *)

\* C11: whenever delete(tid, uid) succeeds, a second delete(tid, uid) by the same user
\* throws topic-already-deleted, and whenever restore(tid, uid) succeeds, a second
\* restore(tid, uid) throws topic-already-restored; the second call leaves the deleted
\* flag, every other field, the indices and the event log as the first call left them.
C11_NotIdempotent ==
    \A tid \in Tids, uid \in Uids :
        /\ LET first == topicTools_delete(Store, tid, uid)
               second == topicTools_delete(first.st, tid, uid)
           IN first.out = "ok" =>
                /\ second.out = "topic-already-deleted"
                /\ second.st = first.st
                /\ Flag(second.st, tid, "deleted") = 1
        /\ LET first == topicTools_restore(Store, tid, uid)
               second == topicTools_restore(first.st, tid, uid)
           IN first.out = "ok" =>
                /\ second.out = "topic-already-restored"
                /\ second.st = first.st
                /\ Flag(second.st, tid, "deleted") = 0

\* a topic has been deleted and restored; its log ends delete, restore, and the user
\* who restored it is refused a second restore
C11_Witness ==
    \E tid \in Tids :
        /\ Len(events[tid]) >= 2
        /\ events[tid][Len(events[tid]) - 1].type = "delete"
        /\ Last(events[tid]).type = "restore"
        /\ Flag(Store, tid, "deleted") = 0
        /\ topicTools_restore(Store, tid, Last(events[tid]).uid).out = "topic-already-restored"
        /\ topicTools_delete(Store, tid, Last(events[tid]).uid).out = "ok"

Thresholds == 1..MaxThreshold
ModeratorOf(st, tid, uid) == IsModerator(uid, Field(st, tid, "cid"))
OverThreshold(st, tid, threshold) == Field(st, tid, "postcount") - 1 >= threshold

\* C12 as stated: with a threshold N > 0, canDelete throws
\* cant-delete-topic-has-replies for every actor who is neither administrator nor
\* moderator when postcount - 1 >= N, and so do delete and restore
C12_ThresholdThrowsReplies ==
    \A tid \in Tids, uid \in Uids, N \in Thresholds :
        (/\ Exists(Store, tid)
         /\ ~IsAdministrator(uid) /\ ~ModeratorOf(Store, tid, uid)
         /\ OverThreshold(Store, tid, N)) =>
            /\ privsTopics_canDeleteWith(N, Store, tid, uid).out = "cant-delete-topic-has-replies"
            /\ N = preventTopicDeleteAfterReplies =>
                /\ topicTools_delete(Store, tid, uid).out = "cant-delete-topic-has-replies"
                /\ topicTools_restore(Store, tid, uid).out = "cant-delete-topic-has-replies"

\* C12, amended: with a threshold N > 0 and postcount - 1 >= N, canDelete throws,
\* rather than returning false, for every actor who is neither administrator nor
\* moderator of the topic's category: the error is cant-delete-topic-has-reply for N = 1
\* and cant-delete-topic-has-replies for N > 1. delete and restore pass that error on
\* unchanged, and change nothing, when the topic is not scheduled; on a scheduled topic
\* they throw invalid-data before canDelete is asked. An administrator always gets true,
\* and a moderator of the category who holds the topics:delete ACL gets true, whatever
\* the post count.
C12_ThresholdGuard ==
    \A tid \in Tids, uid \in Uids, N \in Thresholds :
        Exists(Store, tid) =>
            LET r == privsTopics_canDeleteWith(N, Store, tid, uid)
                cid == Field(Store, tid, "cid")
            IN  /\ IsAdministrator(uid) => r.out = "ok" /\ r.can
                /\ (~IsAdministrator(uid) /\ ModeratorOf(Store, tid, uid)
                        /\ AclAllows("topics:delete", uid, cid)) => r.out = "ok" /\ r.can
                /\ (~IsAdministrator(uid) /\ ~ModeratorOf(Store, tid, uid)) =>
                        IF OverThreshold(Store, tid, N)
                        THEN r.out = (IF N = 1 THEN "cant-delete-topic-has-reply"
                                               ELSE "cant-delete-topic-has-replies")
                        ELSE r.out = "ok"
                /\ (N = preventTopicDeleteAfterReplies /\ r.out # "ok") =>
                        \A isDelete \in BOOLEAN :
                            LET d == toggleDelete(Store, tid, uid, isDelete)
                            IN  /\ d.out = (IF Scheduled(Store, tid) THEN "invalid-data" ELSE r.out)
                                /\ d.st = Store

\* a topic with replies over the threshold has been deleted by a moderator of its
\* category; its owner's restore, and an ordinary user's, end with the threshold error
C12_Witness ==
    \E tid \in Tids :
        /\ Exists(Store, tid) /\ ~Scheduled(Store, tid)
        /\ OverThreshold(Store, tid, preventTopicDeleteAfterReplies)
        /\ Flag(Store, tid, "deleted") = 1
        /\ events[tid] # <<>>
        /\ Last(events[tid]).type = "delete"
        /\ ModeratorOf(Store, tid, Last(events[tid]).uid)
        /\ ~IsAdministrator(Last(events[tid]).uid)
        /\ topicTools_restore(Store, tid, TopicOwner(tid)).out
                = ThresholdError(preventTopicDeleteAfterReplies)
        /\ \E N \in Thresholds :
            N > 1 /\ privsTopics_canDeleteWith(N, Store, tid, TopicOwner(tid)).out
                        = "cant-delete-topic-has-replies"
-----------------------------------------------------------------------------
(* Properties of the guards of the lifecycle commands *)

\* every caller a command may be given: the registered users, the guest, and 'system'
AnyUid == Uids \cup {SystemUid}
\* the expiry times and the positions a caller may pass
Expiries == 0..(MaxNow + 1)
Orders == (-1)..MaxOrder

\* a call that ended with an error left the store as it was and fired no action hook
FailsClean(r) == r.out # "ok" => r.st = Store /\ r.hooks = <<>>

\* C13: whenever delete, restore, purge, lock, unlock, pin, unpin, setPinExpiry or
\* orderPinnedTopics ends with no-privileges or any other error, the topic hashes, every
\* sorted set, the event logs and the category counters are what they were before the
\* call, and no action hook has fired
C13_GuardPrecedesMutation ==
    \A tid \in Tids, uid \in AnyUid :
        /\ FailsClean(topicTools_delete(Store, tid, uid))
        /\ FailsClean(topicTools_restore(Store, tid, uid))
        /\ FailsClean(topicTools_purge(Store, tid, uid))
        /\ FailsClean(topicTools_lock(Store, tid, uid))
        /\ FailsClean(topicTools_unlock(Store, tid, uid))
        /\ FailsClean(topicTools_pin(Store, tid, uid))
        /\ FailsClean(topicTools_unpin(Store, tid, uid))
        /\ \A expiry \in Expiries : FailsClean(topicTools_setPinExpiry(Store, tid, Num(expiry), uid))
        /\ \A order \in Orders : FailsClean(topicTools_orderPinnedTopics(Store, uid, tid, order))

\* a pinned, deleted topic on which the administrator's second delete meets the state
\* conflict while a student's lock, pin, purge and reorder meet no-privileges
C13_Witness ==
    \E tid \in Tids :
        /\ Field(Store, tid, "deleted") = 1
        /\ Field(Store, tid, "pinned") = 1
        /\ events[tid] # <<>>
        /\ topicTools_delete(Store, tid, 1).out = "topic-already-deleted"
        /\ topicTools_lock(Store, tid, 0).out = "no-privileges"
        /\ topicTools_unpin(Store, tid, 4).out = "no-privileges"
        /\ topicTools_purge(Store, tid, 3).out = "no-privileges"
        /\ topicTools_setPinExpiry(Store, tid, Num(MaxNow + 1), 4).out = "no-privileges"
        /\ topicTools_orderPinnedTopics(Store, 4, tid, 0).out = "no-privileges"

\* a call that ended with no-topic and wrote nothing
NoTopic(r) == r.out = "no-topic" /\ r.st = Store

\* C14: every lifecycle command (delete, restore, purge, lock, unlock, pin, unpin,
\* setPinExpiry, orderPinnedTopics, move) called by a numeric uid on a tid that holds no
\* topic fails with no-topic and writes nothing; it fails with no other error and never
\* returns normally
C14_NoTopicFirst ==
    \A tid \in Tids :
        ~Exists(Store, tid) =>
            \A uid \in Uids :
                /\ NoTopic(topicTools_delete(Store, tid, uid))
                /\ NoTopic(topicTools_restore(Store, tid, uid))
                /\ NoTopic(topicTools_purge(Store, tid, uid))
                /\ NoTopic(topicTools_lock(Store, tid, uid))
                /\ NoTopic(topicTools_unlock(Store, tid, uid))
                /\ NoTopic(topicTools_pin(Store, tid, uid))
                /\ NoTopic(topicTools_unpin(Store, tid, uid))
                /\ \A cid \in Cids : NoTopic(topicTools_move(Store, tid, cid, uid))
                /\ \A expiry \in Expiries : NoTopic(topicTools_setPinExpiry(Store, tid, Num(expiry), uid))
                /\ \A order \in Orders : NoTopic(topicTools_orderPinnedTopics(Store, uid, tid, order))

-----------------------------------------------------------------------------
(* Properties of the audit log *)

\* the call appended exactly one event, of the given type, to the log of tid alone
OneEvent(r, tid, type) ==
    /\ Len(r.st.events[tid]) = Len(events[tid]) + 1
    /\ SubSeq(r.st.events[tid], 1, Len(events[tid])) = events[tid]
    /\ Last(r.st.events[tid]).type = type
    /\ \A t \in Tids \ {tid} : r.st.events[t] = events[t]
\* the call left every log as it was
NoEvent(r) == r.st.events = events
\* one event when the call succeeded, none when it failed
Audited(r, tid, type) == IF r.out = "ok" THEN OneEvent(r, tid, type) ELSE NoEvent(r)
\* one event, of whatever type, when the call succeeded, none when it failed
AuditedOnce(r, tid) ==
    IF r.out = "ok"
    THEN Len(r.st.events[tid]) = Len(events[tid]) + 1
    ELSE NoEvent(r)

\* C15 as stated: every successful delete, restore, lock, unlock, pin, unpin,
\* setPinExpiry, orderPinnedTopics and move appends exactly one audit event to the
\* topic's log, and a failed one appends none
C15_OneEventEveryCommand ==
    \A tid \in Tids, uid \in AnyUid :
        /\ AuditedOnce(topicTools_delete(Store, tid, uid), tid)
        /\ AuditedOnce(topicTools_restore(Store, tid, uid), tid)
        /\ AuditedOnce(topicTools_lock(Store, tid, uid), tid)
        /\ AuditedOnce(topicTools_unlock(Store, tid, uid), tid)
        /\ AuditedOnce(topicTools_pin(Store, tid, uid), tid)
        /\ AuditedOnce(topicTools_unpin(Store, tid, uid), tid)
        /\ \A cid \in Cids : AuditedOnce(topicTools_move(Store, tid, cid, uid), tid)
        /\ \A expiry \in Expiries : AuditedOnce(topicTools_setPinExpiry(Store, tid, Num(expiry), uid), tid)
        /\ \A order \in Orders : AuditedOnce(topicTools_orderPinnedTopics(Store, uid, tid, order), tid)

\* C15 as the code has it: every successful delete, restore, lock, unlock, pin, unpin
\* and move appends exactly one event, of its own type, to the log of its topic and
\* none to any other log, and a failed one appends none; setPinExpiry and
\* orderPinnedTopics append no event whether they succeed or fail
C15_OneEventPerLoggedCommand ==
    \A tid \in Tids, uid \in AnyUid :
        /\ Audited(topicTools_delete(Store, tid, uid), tid, "delete")
        /\ Audited(topicTools_restore(Store, tid, uid), tid, "restore")
        /\ Audited(topicTools_lock(Store, tid, uid), tid, "lock")
        /\ Audited(topicTools_unlock(Store, tid, uid), tid, "unlock")
        /\ Audited(topicTools_pin(Store, tid, uid), tid, "pin")
        /\ Audited(topicTools_unpin(Store, tid, uid), tid, "unpin")
        /\ \A cid \in Cids : Audited(topicTools_move(Store, tid, cid, uid), tid, "move")
        /\ \A expiry \in Expiries : NoEvent(topicTools_setPinExpiry(Store, tid, Num(expiry), uid))
        /\ \A order \in Orders : NoEvent(topicTools_orderPinnedTopics(Store, uid, tid, order))

\* a topic that was pinned and given an expiry: its log holds the pin event alone, and
\* an unpin, a lock, a delete, a move and a reorder by the administrator all succeed
C15_Witness ==
    \E tid \in Tids :
        /\ Field(Store, tid, "pinExpiry") # 0
        /\ Len(events[tid]) = 1
        /\ events[tid][1].type = "pin"
        /\ topicTools_unpin(Store, tid, 1).out = "ok"
        /\ topicTools_lock(Store, tid, 1).out = "ok"
        /\ topicTools_delete(Store, tid, 1).out = "ok"
        /\ topicTools_move(Store, tid, 2, 1).out = "ok"
        /\ topicTools_setPinExpiry(Store, tid, Num(MaxNow + 1), 1).out = "ok"
        /\ topicTools_orderPinnedTopics(Store, 1, tid, 0).out = "ok"
        /\ topicTools_restore(Store, tid, 1).out # "ok"

-----------------------------------------------------------------------------
(* Properties of the order of the steps of a transition *)

\* the writes of a transition
WritesOf(op) == UNION {Stages(op)[i] : i \in 1..Len(Stages(op))}
\* how often x has happened in the call c, and where first (0: not yet)
Count(c, x) == Cardinality({i \in 1..Len(c.trace) : c.trace[i] = x})
Done(c, x) == Count(c, x) > 0
Pos(c, x) == IF Done(c, x) THEN CHOOSE i \in 1..Len(c.trace) :
                                    c.trace[i] = x /\ \A j \in 1..(i - 1) : c.trace[j] # x
             ELSE 0

\* C16 as stated: within one delete, restore, lock, unlock, pin, unpin or move the
\* state mutation is persisted before the audit event is appended, the audit event is
\* appended before the action hook fires, and the hook fires at most once and only
\* after every write of the transition
C16_TotalOrder ==
    IF proc = <<>> THEN TRUE
    ELSE LET c == proc[1]
         IN  /\ Done(c, "events.log") => Done(c, Mutation(c.op))
             /\ Done(c, HookOf(c.op)) => Done(c, "events.log")
             /\ Count(c, HookOf(c.op)) <= 1
             /\ Done(c, HookOf(c.op)) => \A e \in WritesOf(c.op) : Done(c, e)

\* C16 as the code has it: the action hook fires at most once, exactly once by the time
\* the call returns, as the last step, after every write and the audit event, when the
\* store holds what the command leaves; in delete, restore, lock and unlock the state
\* mutation is persisted before the audit event is appended; in move the index
\* updates are persisted before the audit event is appended
C16_HookAfterPersistence ==
    IF proc = <<>> THEN TRUE
    ELSE LET c == proc[1]
         IN  /\ Count(c, HookOf(c.op)) <= 1
             /\ c.pc = "done" <=> Done(c, HookOf(c.op))
             /\ Done(c, HookOf(c.op)) =>
                    /\ \A e \in WritesOf(c.op) : Count(c, e) = 1
                    /\ Last(c.trace) = HookOf(c.op)
                    /\ Store = c.goal
             /\ c.op \in {"delete", "restore", "lock", "unlock"} =>
                    (Done(c, "events.log") => Done(c, Mutation(c.op)))
             /\ c.op = "move" =>
                    (Done(c, "events.log") =>
                        Done(c, "sortedSetsRemove") /\ Done(c, "sortedSetAddBulk"))

\* a pin that has returned, whose audit event was appended before the pinned flag was
\* written
C16_Witness ==
    IF proc = <<>> THEN FALSE
    ELSE /\ proc[1].op = "pin"
         /\ proc[1].pc = "done"
         /\ Pos(proc[1], "events.log") < Pos(proc[1], "setTopicField")
         /\ Field(Store, proc[1].tid, "pinned") = 1
         /\ Last(events[proc[1].tid]).type = "pin"

-----------------------------------------------------------------------------
(* Properties of lock and unlock *)

\* lock or unlock, by the requested value of the flag
LockCall(st, tid, uid, lock) ==
    IF lock THEN topicTools_lock(st, tid, uid) ELSE topicTools_unlock(st, tid, uid)

\* C17: lock and unlock succeed only for an administrator or a moderator of the topic's
\* category; on a topic that exists a user who is only an instructor gets no-privileges
\* and the store, the locked flag included, is unchanged; on success the stored locked
\* field is the requested value and the returned isLocked and locked are both equal to it
C17_LockAdminOrModOnly ==
    \A tid \in Tids, uid \in AnyUid, lock \in BOOLEAN :
        LET r == LockCall(Store, tid, uid, lock)
            cid == Field(Store, tid, "cid")
        IN  /\ r.out = "ok" =>
                /\ IsAdministrator(uid) \/ IsModerator(uid, cid)
                /\ Field(r.st, tid, "locked") = (IF lock THEN 1 ELSE 0)
                /\ r.ret.isLocked = lock
                /\ r.ret.locked = lock
            /\ (cid # 0 /\ User_isInstructor(uid) /\ ~IsAdministrator(uid) /\ ~IsModerator(uid, cid)) =>
                /\ r.out = "no-privileges"
                /\ r.st = Store
            /\ (cid # 0 /\ (IsAdministrator(uid) \/ IsModerator(uid, cid))) => r.out = "ok"

\* a topic that a lock has locked: the instructor's unlock is refused, the moderator's
\* and the administrator's succeed
C17_Witness ==
    \E tid \in Tids :
        /\ Field(Store, tid, "locked") = 1
        /\ events[tid] # <<>>
        /\ Last(events[tid]).type = "lock"
        /\ topicTools_unlock(Store, tid, 3).out = "no-privileges"
        /\ topicTools_unlock(Store, tid, 2).out = "ok"
        /\ topicTools_unlock(Store, tid, 1).ret = [isLocked |-> FALSE, locked |-> FALSE]

-----------------------------------------------------------------------------
(* Properties of move *)

\* the per-category indices of category cid that hold topics: standard, pinned, posts,
\* votes, views, lastposttime, per-owner and per-tag
CategoryIndices(st, cid, tid) ==
    {CidKey(cid, s) : s \in StandardSuffixes \cup {":tids:pinned", ":tids:lastposttime"}}
    \cup {CidUidKey(cid, Field(st, tid, "uid"))}
    \cup {CidTagKey(cid, g) : g \in TopicTags(tid)}
Member(st, key, tid) == tid \in DOMAIN st.zset[key]

\* C18: after a completed move of a topic from category A to a different category B
\* the topic is in none of A's standard, pinned, posts, votes, views, lastposttime,
\* per-owner and per-tag indices; a pinned topic is in B's pinned index and in none of
\* B's standard, posts, votes and views indices; a topic that is not pinned is in B's
\* standard, posts, votes and views indices and not in B's pinned index
C18_MoveReindexes ==
    \A tid \in Tids, B \in Cids, uid \in Uids :
        LET r == topicTools_move(Store, tid, B, uid)
            A == Field(Store, tid, "cid")
        IN  r.out = "ok" =>
                /\ A # B
                /\ \A k \in CategoryIndices(Store, A, tid) : ~Member(r.st, k, tid)
                /\ IF Field(Store, tid, "pinned") # 0
                   THEN /\ Member(r.st, CidKey(B, ":tids:pinned"), tid)
                        /\ \A s \in StandardSuffixes : ~Member(r.st, CidKey(B, s), tid)
                   ELSE /\ \A s \in StandardSuffixes : Member(r.st, CidKey(B, s), tid)
                        /\ ~Member(r.st, CidKey(B, ":tids:pinned"), tid)
                /\ Field(r.st, tid, "pinned") = Field(Store, tid, "pinned")

\* a pinned topic that a move has taken from category 1 to category 2, next to a topic
\* that is not pinned and can be moved
C18_Witness ==
    \E tid \in Tids, other \in Tids :
        /\ Field(Store, tid, "pinned") = 1
        /\ Field(Store, tid, "cid") = 2
        /\ Field(Store, tid, "oldCid") = 1
        /\ Last(events[tid]).type = "move"
        /\ Member(Store, CidKey(2, ":tids:pinned"), tid)
        /\ ~Member(Store, CidKey(1, ":tids:pinned"), tid)
        /\ Field(Store, other, "pinned") = 0
        /\ topicTools_move(Store, other, 2, 1).out = "ok"
        /\ topicTools_move(Store, tid, 1, 1).out = "ok"

\* the number of topics filed under category cid
TopicsIn(st, cid) == Cardinality({t \in Tids : Exists(st, t) /\ Field(st, t, "cid") = cid})

\* C19: a move to the topic's current category throws
\* cant-move-topic-to-same-category and changes nothing; a successful move from A to B
\* sets cid = B and oldCid = A, takes 1 from A's topic_count, adds 1 to B's and appends
\* one move event whose fromCid is A; and after any sequence of moves the topic_count of
\* each category is the number of topics whose cid is that category
C19_MoveCounts ==
    /\ \A c \in Cids : category[c].topic_count = TopicsIn(Store, c)
    /\ \A tid \in Tids, B \in Cids, uid \in Uids :
        LET r == topicTools_move(Store, tid, B, uid)
            A == Field(Store, tid, "cid")
        IN  IF A = B
            THEN r.out = "cant-move-topic-to-same-category" /\ r.st = Store /\ r.hooks = <<>>
            ELSE /\ r.out = "ok"
                 /\ Field(r.st, tid, "cid") = B
                 /\ Field(r.st, tid, "oldCid") = A
                 /\ r.st.category[A].topic_count = category[A].topic_count - 1
                 /\ r.st.category[B].topic_count = category[B].topic_count + 1
                 /\ r.st.events[tid] = Append(events[tid], [type |-> "move", uid |-> uid, fromCid |-> A])
                 /\ \A t \in Tids \ {tid} : r.st.events[t] = events[t]
                 /\ \A c \in Cids : r.st.category[c].topic_count = TopicsIn(r.st, c)

\* both topics have been moved to category 2, one of them there and back before: a
\* move to category 2 is now refused and a move to category 1 succeeds
C19_Witness ==
    /\ category[1].topic_count = 0
    /\ category[2].topic_count = 2
    /\ \A t \in Tids : Field(Store, t, "cid") = 2 /\ Last(events[t]).type = "move"
    /\ topicTools_move(Store, 1, 2, 1).out = "cant-move-topic-to-same-category"
    /\ topicTools_move(Store, 1, 1, 1).out = "ok"

-----------------------------------------------------------------------------
(* Properties of the visibility of deleted and scheduled topics *)

\* the arguments are of the declared types: a topic object, a privileges object or
\* none, boolean flags or none
WellTyped(c) ==
    /\ c.topic.kind = "object"
    /\ c.privileges.kind \in {"object", "undefined"}
    /\ c.viewDeleted \in {"true", "false", "undefined"}
    /\ c.viewScheduled \in {"true", "false", "undefined"}
\* the permission in force: the field of privileges when it has one, else the
\* positional flag, else false
Permission(c, field, flag) ==
    IF c.privileges.kind = "object" /\ c.privileges[field] # "undefined"
    THEN c.privileges[field]
    ELSE IF flag = "undefined" THEN "false" ELSE flag

\* C20: canViewDeletedScheduled(topic, privileges, viewDeleted, viewScheduled) returns
\* the view-scheduled permission whenever topic.scheduled is true, whatever
\* topic.deleted is, otherwise the view-deleted permission when topic.deleted is true,
\* otherwise true; a view_deleted / view_scheduled field of privileges overrides the
\* positional flag
C20_ScheduledWinsOverDeleted ==
    (proc[1].pc = "done" /\ WellTyped(proc[1])) =>
        LET c == proc[1]
        IN  proc[1].ret =
                IF c.topic.scheduled = "true"
                THEN Permission(c, "view_scheduled", c.viewScheduled)
                ELSE IF c.topic.deleted = "1"
                THEN Permission(c, "view_deleted", c.viewDeleted)
                ELSE "true"

\* the call has returned false for a topic that is both scheduled and deleted, asked
\* with viewDeleted = viewScheduled = true and privileges that allow view_deleted and
\* deny view_scheduled
C20_Witness ==
    /\ proc[1].pc = "done"
    /\ proc[1].topic = [kind |-> "object", deleted |-> "1", scheduled |-> "true"]
    /\ proc[1].privileges = [kind |-> "object", view_deleted |-> "true", view_scheduled |-> "false"]
    /\ proc[1].viewDeleted = "true"
    /\ proc[1].viewScheduled = "true"
    /\ proc[1].ret = "false"

-----------------------------------------------------------------------------
(* Properties of the privilege queries *)

\* the query that has been answered is a call of op
Answered(op) == IF proc = <<>> THEN FALSE ELSE proc[1].op = op
\* the elements of a list
Range(seq) == {seq[i] : i \in 1..Len(seq)}

\* C21: filterUids(privilege, tid, uids) returns only members of uids, and every user u
\* it returns is in a category that is not disabled and is an administrator or holds
\* the privilege on the topic's category itself (the topic being scheduled or not
\* deleted); when the topic is scheduled every returned user holds topics:schedule
C21_FilterUidsByOwnPermission ==
    Answered("filterUids") =>
        LET c == proc[1]
            cid == Field(Store, c.tid, "cid")
        IN  \A u \in Range(c.ret) :
                /\ u \in Range(c.list)
                /\ ~Disabled(Store, cid)
                /\ \/ IsAdministrator(u)
                   \/ /\ AclAllows(c.privilege, u, cid)
                      /\ Scheduled(Store, c.tid) \/ Field(Store, c.tid, "deleted") = 0
                /\ Scheduled(Store, c.tid) => AclAllows("topics:schedule", u, cid)

\* the visibility rule of a topic for uid: a scheduled topic asks for topics:schedule on
\* its category, a deleted one for posts:view_deleted, any other is visible
VisibleTo(st, tid, uid) ==
    IF Scheduled(st, tid) THEN AclAllows("topics:schedule", uid, Field(st, tid, "cid"))
    ELSE IF Field(st, tid, "deleted") # 0 THEN AclAllows("posts:view_deleted", uid, Field(st, tid, "cid"))
    ELSE TRUE
\* the topic passes the three tests of filterTids
Passes(privilege, st, tid, uid) ==
    /\ ~Disabled(st, Field(st, tid, "cid"))
    /\ AclAllows(privilege, uid, Field(st, tid, "cid")) \/ IsAdministrator(uid)
    /\ IsAdministrator(uid) \/ VisibleTo(st, tid, uid)
\* the elements of seq that pass, in the order of seq
RECURSIVE Passing(_, _, _, _)
Passing(privilege, st, seq, uid) ==
    IF seq = <<>> THEN <<>>
    ELSE (IF Passes(privilege, st, Head(seq), uid) THEN <<Head(seq)>> ELSE <<>>)
         \o Passing(privilege, st, Tail(seq), uid)

\* C22: filterTids(privilege, tids, uid) returns, in input order, exactly the input
\* topics whose category is not disabled, for which the user holds the privilege on the
\* category or is an administrator, and for which the user is an administrator or the
\* visibility rule passes with the category's view-deleted / view-scheduled flags; topics
\* of a disabled category are excluded for administrators too; an empty or non-array
\* tids gives the empty list
C22_FilterTidsExact ==
    Answered("filterTids") =>
        LET c == proc[1]
        IN  /\ c.ret = IF c.list.kind = "array"
                       THEN Passing(c.privilege, Store, c.list.items, c.uid)
                       ELSE <<>>
            /\ \A t \in Range(c.ret) : ~Disabled(Store, Field(Store, t, "cid"))

\* uid 4, who may read but holds neither topics:schedule nor posts:view_deleted, asked
\* about the scheduled topic 2 and the plain topic 1, in that order, and got topic 1
C22_Witness ==
    /\ Answered("filterTids")
    /\ proc[1].uid = 4
    /\ proc[1].privilege = "topics:read"
    /\ proc[1].list = [kind |-> "array", items |-> <<2, 1>>]
    /\ Scheduled(Store, 2)
    /\ proc[1].ret = <<1>>


\* the permissions of the bag: the category privileges and the permissions derived from them
Permissions == privs \cup {"view_thread_tools", "editable", "deletable", "view_deleted",
                           "view_scheduled"}

\* C23: in the bag that get(tid, uid) returns, isOwner is true iff uid > 0 and uid is the
\* topic's uid; editable is true iff the user is administrator, moderator of the topic's
\* category or instructor; deletable is true iff (the topics:delete ACL is granted and the
\* user is owner or moderator) or the user is administrator; view_thread_tools is true iff
\* editable or deletable; and an administrator gets true for every permission of the bag.
C23_BagOfGet ==
    Answered("get") =>
        LET c == proc[1]
            bag == c.ret
            cid == Field(Store, c.tid, "cid")
            owner == c.uid > 0 /\ c.uid = TopicOwner(c.tid)
            moderator == IsModerator(c.uid, cid)
        IN  /\ bag["isOwner"] <=> owner
            /\ bag["editable"] <=>
                    (IsAdministrator(c.uid) \/ moderator \/ AccountType(c.uid) = "instructor")
            /\ bag["deletable"] <=>
                    ((AclAllows("topics:delete", c.uid, cid) /\ (owner \/ moderator))
                        \/ IsAdministrator(c.uid))
            /\ bag["view_thread_tools"] <=> (bag["editable"] \/ bag["deletable"])
            /\ IsAdministrator(c.uid) => \A k \in Permissions : bag[k]

\* an instructor who neither owns nor moderates topic 1 has asked for their privileges on it:
\* editable and view_thread_tools without deletable
C23_Witness ==
    /\ Answered("get")
    /\ proc[1].uid = 3 /\ proc[1].tid = 1
    /\ proc[1].ret["editable"] /\ proc[1].ret["view_thread_tools"]
    /\ ~proc[1].ret["deletable"] /\ ~proc[1].ret["isOwner"]

\* an administrator who holds no category privilege of their own has asked for their
\* privileges on a locked, deleted topic
C23_WitnessAdmin ==
    /\ Answered("get")
    /\ proc[1].uid = 1 /\ ~AclAllows("topics:reply", 1, Field(Store, proc[1].tid, "cid"))
    /\ Field(Store, proc[1].tid, "locked") # 0 /\ Field(Store, proc[1].tid, "deleted") # 0
    /\ proc[1].ret["topics:reply"]


\* C24: get(tid, uid) never grants topics:reply to a user who is neither administrator nor
\* moderator of the category when the topic is locked, when it is deleted and not scheduled,
\* or when it is scheduled and the user lacks topics:schedule; and it never grants
\* topics:reply to a non-administrator who lacks the topics:reply ACL.
C24_ReplyNeverGranted ==
    Answered("get") =>
        LET c == proc[1]
            cid == Field(Store, c.tid, "cid")
            closed == \/ Field(Store, c.tid, "locked") # 0
                      \/ Field(Store, c.tid, "deleted") # 0 /\ ~Scheduled(Store, c.tid)
                      \/ Scheduled(Store, c.tid) /\ ~AclAllows("topics:schedule", c.uid, cid)
        IN  /\ (~IsAdministrator(c.uid) /\ ~IsModerator(c.uid, cid) /\ closed)
                    => ~c.ret["topics:reply"]
            /\ (~IsAdministrator(c.uid) /\ ~AclAllows("topics:reply", c.uid, cid))
                    => ~c.ret["topics:reply"]

\* a user who holds the topics:reply ACL has asked for their privileges on a locked topic
\* that is neither deleted nor scheduled, and is refused the reply
C24_Witness ==
    /\ Answered("get")
    /\ proc[1].uid = 4 /\ AclAllows("topics:reply", 4, Field(Store, proc[1].tid, "cid"))
    /\ Field(Store, proc[1].tid, "locked") # 0
    /\ Field(Store, proc[1].tid, "deleted") = 0 /\ ~Scheduled(Store, proc[1].tid)
    /\ ~proc[1].ret["topics:reply"]


-----------------------------------------------------------------------------
(* Properties of the pin expiry *)

\* the topic hash without its pinExpiry field
WithoutExpiry(st, tid) == Del(st.topic[tid], "pinExpiry")
\* the store apart from the pinExpiry field of tid
ApartFromExpiry(st, tid) == [st EXCEPT !.topic[tid] = WithoutExpiry(st, tid)]

-----------------------------------------------------------------------------
(* Properties of the order of the pinned topics *)

\* the pinned topics of the category of tid, by ascending score
PinnedOrder(st, tid) == getSortedSetRange(st.zset, CidKey(Field(st, tid, "cid"), ":tids:pinned"))
\* the store apart from the pinned index of the category of tid
ApartFromPinned(st, tid) ==
    [st EXCEPT !.zset = Del(@, CidKey(Field(st, tid, "cid"), ":tids:pinned"))]

-----------------------------------------------------------------------------
(* Properties of purge *)

\* a call that did not succeed and left the store as it was
Refused(r) == r.out # "ok" /\ r.st = Store

\* every lifecycle command but setPinExpiry is refused on tid
OthersRefused(tid, uid) ==
    /\ Refused(topicTools_delete(Store, tid, uid))
    /\ Refused(topicTools_restore(Store, tid, uid))
    /\ Refused(topicTools_purge(Store, tid, uid))
    /\ Refused(topicTools_lock(Store, tid, uid))
    /\ Refused(topicTools_unlock(Store, tid, uid))
    /\ Refused(topicTools_pin(Store, tid, uid))
    /\ Refused(topicTools_unpin(Store, tid, uid))
    /\ \A cid \in Cids : Refused(topicTools_move(Store, tid, cid, uid))
    /\ \A order \in Orders : Refused(topicTools_orderPinnedTopics(Store, uid, tid, order))

\* purge removes the topic exactly for the callers that canPurge admits, and a deleted
\* topic is restored by the administrator
PurgeGuardedDeleteReversible(tid) ==
    /\ Exists(Store, tid) =>
        \A uid \in Uids :
            LET r == topicTools_purge(Store, tid, uid)
                cid == Field(Store, tid, "cid")
                owner == uid > 0 /\ uid = Field(Store, tid, "uid")
                mayPurge == (AclAllows("purge", uid, cid) /\ (owner \/ IsModerator(uid, cid)))
                                \/ IsAdministrator(uid)
            IN  IF mayPurge THEN r.out = "ok" /\ ~Exists(r.st, tid)
                ELSE r.out = "no-privileges" /\ r.st = Store
    /\ (Exists(Store, tid) /\ Field(Store, tid, "deleted") # 0) =>
        LET r == topicTools_restore(Store, tid, 1)
        IN r.out = "ok" /\ Field(r.st, tid, "deleted") = 0

\* C27: purge(tid, uid) removes the topic only when (the purge ACL is granted and uid is
\* owner or moderator) or uid is administrator, and otherwise throws no-privileges and
\* removes nothing; purge is terminal: after a successful purge no later lifecycle command
\* on that tid succeeds or changes any stored state; and a topic that was only deleted can
\* always be brought back to deleted = 0 by restore.
C27_PurgeTerminal ==
    \A tid \in Tids :
        /\ PurgeGuardedDeleteReversible(tid)
        /\ ~Exists(Store, tid) =>
            \A uid \in Uids :
                /\ OthersRefused(tid, uid)
                /\ \A expiry \in Expiries :
                        Refused(topicTools_setPinExpiry(Store, tid, Num(expiry), uid))


-----------------------------------------------------------------------------
(* Properties of the counter runs *)

\* C28: no error is swallowed: if the counter step of addPostToTopic, removePostFromTopic
\* or increaseViewCount fails (the field increment or the index score update inside
\* incrementFieldAndUpdateSortedSet throws or rejects), the failure propagates to the caller
\* of that operation, which does not return successfully.
C28_NoErrorSwallowed ==
    \A i \in 1..Len(pending) : pending[i].pc = "rejected" => proc[i].out # "ok"

\* the calls of increaseViewCount(tid) made so far
ViewCalls(tid) ==
    {i \in 1..Len(proc) : proc[i].op = "increaseViewCount" /\ proc[i].tid = tid}
\* the score of a member of an index, -1 when it is not a member
ScoreOf(st, key, member) ==
    IF member \in DOMAIN st.zset[key] THEN st.zset[key][member] ELSE -1

\* C29: every call increaseViewCount(tid) on an existing topic increases the stored
\* viewcount by exactly 1 and then sets the topic's score in the global views index and in
\* its category's views index to the new viewcount; after k calls viewcount has grown by k.
\* (Stated for the moments when no run of such a call is still in flight and no store call
\* of one has failed; the topics start with no view.)
C29_ViewCountGrows ==
    \A tid \in Tids :
        (\A i \in ViewCalls(tid) : ~InFlight(pending[i]) /\ pending[i].error # "store") =>
            /\ Field(Store, tid, "viewcount") = Cardinality(ViewCalls(tid))
            /\ ScoreOf(Store, "topics:views", tid) = Field(Store, tid, "viewcount")
            /\ ScoreOf(Store, CidKey(Field(Store, tid, "cid"), ":tids:views"), tid)
                    = Field(Store, tid, "viewcount")


-----------------------------------------------------------------------------
(* Properties of reply threading *)

\* the replies the caller sees, and the users who wrote them
VisibleReplies(c) == {pid \in DOMAIN c.posts : c.posts[pid].uid \notin c.blocked}
VisibleRepliers(c) == {c.posts[pid].uid : pid \in VisibleReplies(c)}
\* a sequence without repetition
Distinct(seq) == \A i, j \in 1..Len(seq) : seq[i] = seq[j] => i = j

\* C30 as stated: the users preview lists distinct repliers without repetition, holds up to
\* 6 of them, and hasMore is true exactly when a 7th distinct replier exists; count equals
\* the number of visible replies
C30_PreviewOfSix ==
    proc[1].pc = "done" =>
        LET c == proc[1]
        IN  /\ Distinct(c.ret.users)
            /\ Elements(c.ret.users) \subseteq VisibleRepliers(c)
            /\ Len(c.ret.users) <= 6
            /\ c.ret.hasMore <=> Cardinality(VisibleRepliers(c)) >= 7
            /\ c.ret.count = Cardinality(VisibleReplies(c))

\* C30, amended: the users preview lists distinct repliers without repetition: all of them
\* when there are at most 5, and 5 of them otherwise; hasMore is true exactly when a 6th
\* distinct replier exists; count equals the number of visible replies
C30_PreviewOfFive ==
    proc[1].pc = "done" =>
        LET c == proc[1]
            repliers == Cardinality(VisibleRepliers(c))
        IN  /\ Distinct(c.ret.users)
            /\ Elements(c.ret.users) \subseteq VisibleRepliers(c)
            /\ Len(c.ret.users) = IF repliers <= 5 THEN repliers ELSE 5
            /\ c.ret.hasMore <=> repliers >= 6
            /\ c.ret.count = Cardinality(VisibleReplies(c))

\* a post with exactly six visible distinct repliers, one of whom replied twice, has been
\* asked for: five users are listed and hasMore is set
C30_Witness ==
    /\ proc[1].pc = "done"
    /\ Cardinality(VisibleRepliers(proc[1])) = 6
    /\ Cardinality(VisibleReplies(proc[1])) = 7
    /\ Len(proc[1].ret.users) = 5
    /\ proc[1].ret.hasMore

-----------------------------------------------------------------------------
(* Properties of the backlinks *)

\* the backlink set of a post
Backlinks(st, pid) == DOMAIN st.zset[BacklinksKey(pid)]
\* the topic ids that a content links to
Linked(content) == Elements(LinkedTids(content))

\* C31: after syncBacklinks(post) the backlink set of the post holds no topic id that the
\* content does not link to and holds every linked topic id that exists and is not the
\* topic of the post; each topic id newly added gets exactly one backlink event in its log
\* and no other log changes; a second call with the same content leaves the store as the
\* first one left it: nothing added, nothing removed, no event logged.
C31_SyncBacklinksReconciles ==
    \A pid \in BacklinkPids, content \in Contents :
        LET postData == PostData(pid, content)
            first == Topics_syncBacklinks(Store, postData)
            second == Topics_syncBacklinks(first.st, postData)
            before == Backlinks(Store, pid)
            after == Backlinks(first.st, pid)
        IN  /\ first.out = "ok"
            /\ after \subseteq Linked(content)
            /\ \A t \in Linked(content) :
                    (Exists(Store, t) /\ t # postData.tid) => t \in after
            /\ \A t \in LinkTids :
                    first.st.events[t] =
                        IF t \in after \ before
                        THEN Append(Store.events[t], [type |-> "backlink", uid |-> postData.uid])
                        ELSE Store.events[t]
            /\ second.out = "ok"
            /\ second.st = first.st

\* post 1 of topic 1 has linked to topic 2 and the log of topic 2 holds the one backlink
\* event; saving a content without that link takes topic 2 out of the set again, and saving
\* a content that links to topic 1 and, written 02, to topic 2 changes nothing: the first is the
\* topic of the post and the second is recorded already
C31_Witness ==
    /\ Backlinks(Store, 1) = {2}
    /\ events[2] = <<[type |-> "backlink", uid |-> PostUid(1)]>>
    /\ Backlinks(Topics_syncBacklinks(Store, PostData(1, <<>>)).st, 1) = {}
    /\ Topics_syncBacklinks(Store, PostData(1, <<<<"1">>, <<"0", "2">>>>)).st = Store

-----------------------------------------------------------------------------
(* Properties of the category indices *)

\* the score of tid in an index of its category
IndexScore(st, tid, suffix) == st.zset[CidKey(Field(st, tid, "cid"), suffix)][tid]
\* tid is filed in an index of its category
Filed(st, tid, suffix) == Member(st, CidKey(Field(st, tid, "cid"), suffix), tid)

\* C32: in every state between pin, unpin and move calls, a topic that is not scheduled is
\* in the pinned index of its category exactly when its pinned flag is 1, and is never in
\* both the pinned index and one of the standard, posts, votes and views indices of that
\* category; and a successful unpin leaves it in these four indices with the scores
\* lastposttime, postcount, votes and viewcount.
C32_PinnedIndexFollowsFlag ==
    \A tid \in Tids :
        (Exists(Store, tid) /\ ~Scheduled(Store, tid)) =>
            /\ Filed(Store, tid, ":tids:pinned") <=> Flag(Store, tid, "pinned") = 1
            /\ ~(/\ Filed(Store, tid, ":tids:pinned")
                 /\ \E s \in StandardSuffixes : Filed(Store, tid, s))
            /\ \A uid \in Uids :
                LET r == topicTools_unpin(Store, tid, uid)
                IN  r.out = "ok" =>
                        /\ IndexScore(r.st, tid, ":tids") = Field(r.st, tid, "lastposttime")
                        /\ IndexScore(r.st, tid, ":tids:posts") = Field(r.st, tid, "postcount")
                        /\ IndexScore(r.st, tid, ":tids:votes") = Votes(r.st, tid)
                        /\ IndexScore(r.st, tid, ":tids:views") = Field(r.st, tid, "viewcount")

\* the busy topic 1 was pinned, moved to category 2 and unpinned there: it is back in the
\* four indices of category 2 with its own counts as scores
C32_Witness ==
    /\ Len(events[1]) = 3 /\ events[1][1].type = "pin" /\ events[1][2].type = "move"
    /\ events[1][3].type = "unpin"
    /\ Field(Store, 1, "cid") = 2 /\ Flag(Store, 1, "pinned") = 0
    /\ ~Filed(Store, 1, ":tids:pinned")
    /\ IndexScore(Store, 1, ":tids:posts") = 3 /\ IndexScore(Store, 1, ":tids:votes") = 2
    /\ IndexScore(Store, 1, ":tids:views") = 5

-----------------------------------------------------------------------------
(* Properties of the owner's delete and restore *)

\* uid created the topic and is neither administrator nor moderator of its category
PlainOwner(st, tid, uid) ==
    /\ Exists(st, tid)
    /\ Topics_isOwner(st, tid, uid)
    /\ ~IsAdministrator(uid)
    /\ ~IsModerator(uid, Field(st, tid, "cid"))
\* somebody else deleted the topic last
DeletedByOther(st, tid, uid) == Field(st, tid, "deleterUid") \notin {0, uid}

\* C33 as stated: a topic owner who is neither administrator nor moderator deletes or
\* restores the topic only while deleterUid is 0 or the owner's uid; once deleterUid is
\* another user, the owner's delete and restore both fail with no-privileges and leave the
\* deleted flag as it is.
C33_OwnerRefusedNoPrivileges ==
    \A tid \in Tids, uid \in Uids, isDelete \in BOOLEAN :
        PlainOwner(Store, tid, uid) =>
            LET r == toggleDelete(Store, tid, uid, isDelete)
            IN  /\ r.out = "ok" => ~DeletedByOther(Store, tid, uid)
                /\ DeletedByOther(Store, tid, uid) =>
                        /\ r.out = "no-privileges"
                        /\ Flag(r.st, tid, "deleted") = Flag(Store, tid, "deleted")

\* C33, amended: a topic owner who is neither administrator nor moderator deletes or
\* restores the topic only while deleterUid is 0 or the owner's uid; once deleterUid is
\* another user, the owner's delete and restore both fail and leave the store as it is: with
\* the reply-threshold error when the topic has reached the configured threshold of
\* replies, with no-privileges otherwise.
C33_OwnerRefused ==
    \A tid \in Tids, uid \in Uids, isDelete \in BOOLEAN :
        PlainOwner(Store, tid, uid) =>
            LET r == toggleDelete(Store, tid, uid, isDelete)
            IN  /\ r.out = "ok" => ~DeletedByOther(Store, tid, uid)
                /\ DeletedByOther(Store, tid, uid) =>
                        /\ r.out = IF /\ preventTopicDeleteAfterReplies # 0
                                      /\ OverThreshold(Store, tid, preventTopicDeleteAfterReplies)
                                   THEN ThresholdError(preventTopicDeleteAfterReplies)
                                   ELSE "no-privileges"
                        /\ r.st = Store

\* the moderator has deleted topic 1, which has no reply, and the administrator topic 2,
\* which has one: the owner of topic 1 is refused with no-privileges and the owner of
\* topic 2 with the threshold error, for restore and for delete
C33_Witness ==
    /\ Flag(Store, 1, "deleted") = 1 /\ Field(Store, 1, "deleterUid") = 2
    /\ Flag(Store, 2, "deleted") = 1 /\ Field(Store, 2, "deleterUid") = 1
    /\ Field(Store, 1, "postcount") = 1 /\ Field(Store, 2, "postcount") = 2
    /\ PlainOwner(Store, 1, 4) /\ PlainOwner(Store, 2, 3)
    /\ \A isDelete \in BOOLEAN :
        /\ toggleDelete(Store, 1, 4, isDelete).out = "no-privileges"
        /\ toggleDelete(Store, 2, 3, isDelete).out = "cant-delete-topic-has-reply"

-----------------------------------------------------------------------------
(* Properties of the commands that run together *)

\* the topics in the pinned index of a category
PinnedIn(st, cid) == DOMAIN st.zset[CidKey(cid, ":tids:pinned")]
\* the reorder i has written back a list it read with tid in it
WroteBack(i, tid) ==
    /\ proc[i].op = "order" /\ proc[i].pc = "done" /\ proc[i].stage = 1
    /\ tid \in Elements(proc[i].pinnedTids)
\* an unpin of tid has completed
Unpinned(tid) ==
    \E j \in 1..Len(proc) : proc[j].op = "unpin" /\ proc[j].tid = tid /\ proc[j].out = "ok"

\* C34 as stated: once every orderPinnedTopics and unpin that ran together has completed,
\* the pinned index of a category holds only topics whose pinned flag is 1.
C34_ReorderNeverReinserts ==
    AllDone => \A cid \in Cids : \A tid \in PinnedIn(Store, cid) : Flag(Store, tid, "pinned") = 1

\* C34, amended: once every orderPinnedTopics and unpin that ran together has completed,
\* every topic whose pinned flag is 1 is in the pinned index of its category, and a topic
\* whose flag is not 1 is in a pinned index only if an unpin of it has completed and a
\* reorder has written back a list that it had read with that topic still in it.
C34_ReinsertedByOverlap ==
    AllDone =>
        /\ \A tid \in Tids : Flag(Store, tid, "pinned") = 1 => Filed(Store, tid, ":tids:pinned")
        /\ \A cid \in Cids : \A tid \in PinnedIn(Store, cid) :
                Flag(Store, tid, "pinned") # 1 =>
                    /\ Unpinned(tid)
                    /\ \E i \in 1..Len(proc) : WroteBack(i, tid)

\* topics 1 and 2 were pinned; a reorder of topic 2 read the list <<1, 2>>, the unpin of
\* topic 1 ran to its end, and the reorder then wrote its list: topic 1 is unpinned and
\* is back in the pinned index, ahead of topic 2
C34_Witness ==
    /\ AllDone /\ Len(proc) = 2
    /\ Unpinned(1) /\ Flag(Store, 1, "pinned") = 0
    /\ \E i \in 1..Len(proc) : WroteBack(i, 1) /\ proc[i].tid = 2
    /\ getSortedSetRange(zset, CidKey(1, ":tids:pinned")) = <<1, 2>>
    /\ \A s \in StandardSuffixes : Filed(Store, 1, s)

\* the topics that the topic hashes place in a category
TopicsOf(st, cid) == {t \in Tids : Exists(st, t) /\ Field(st, t, "cid") = cid}
\* tid is in one of the indices of a category
InCategory(st, cid, tid) == \E k \in CategoryIndices(st, cid, tid) : Member(st, k, tid)
\* the counts agree with the topic hashes and each topic is filed in its category only
Consistent(st) ==
    /\ \A cid \in DOMAIN st.category : st.category[cid].topic_count = Cardinality(TopicsOf(st, cid))
    /\ \A tid \in Tids, cid \in DOMAIN st.category :
            InCategory(st, cid, tid) <=> cid = Field(st, tid, "cid")
\* the moves that have completed
Moved == {i \in 1..Len(proc) : proc[i].op = "move" /\ proc[i].out = "ok"}
\* no command was called before the ones called earlier had completed
Sequential == \A i \in 1..Len(proc) : proc[i].after = i - 1

\* C35 as stated: once the concurrent moves of a topic have completed, the topic_count of
\* each category equals the number of topics whose cid is that category, and the topic is
\* in the indices of exactly one category, the one its cid names.
C35_MovesStayConsistent == AllDone => Consistent(Store)

\* C35, amended: every completed move has taken one from the topic_count of the category
\* it read as the topic's and added one to the topic_count of its target, whatever the
\* interleaving; and when no move is called before the earlier ones have completed, the
\* counts equal the numbers of topics per cid and the topic is in the indices of exactly
\* the category its cid names.
C35_MovesCountPerCall ==
    AllDone =>
        /\ \A cid \in MoveCids :
                category[cid].topic_count =
                    (IF cid = 1 THEN Cardinality(Tids) ELSE 0)
                    - Cardinality({i \in Moved : proc[i].cid = cid})
                    + Cardinality({i \in Moved : proc[i].to = cid})
        /\ Sequential => Consistent(Store)

\* two moves of topic 1 out of category 1, to category 2 and to category 3, both read
\* cid 1 and both completed: category 1 counts no topic although topic 2 is in it, the
\* topic is counted in categories 2 and 3 and filed in both
C35_Witness ==
    /\ AllDone /\ Len(proc) = 2 /\ Moved = {1, 2}
    /\ proc[1].cid = 1 /\ proc[2].cid = 1 /\ {proc[1].to, proc[2].to} = {2, 3}
    /\ category[1].topic_count = 0 /\ TopicsOf(Store, 1) = {2}
    /\ category[2].topic_count = 1 /\ category[3].topic_count = 1
    /\ InCategory(Store, 2, 1) /\ InCategory(Store, 3, 1)

\* C36 as stated: once the concurrent addPostToTopic and removePostFromTopic calls on a
\* topic have completed, the stored postercount equals the cardinality of the topic's
\* poster tally.
C36_PosterCountIsCard ==
    AllDone => \A tid \in PostTids : Field(Store, tid, "postercount") = PosterCard(Store, tid)

\* C36, amended: each call writes into postercount the cardinality it read after its own
\* update of the tally. Once the calls have completed, postercount is the cardinality that
\* one of them read, and it equals the cardinality of the tally when no call was made
\* before the earlier ones had completed.
C36_PosterCountIsSomeRead ==
    AllDone =>
        \A tid \in PostTids :
            /\ proc # <<>> =>
                    \E i \in 1..Len(proc) :
                        proc[i].tid = tid /\ proc[i].posterCount = Field(Store, tid, "postercount")
            /\ Sequential => Field(Store, tid, "postercount") = PosterCard(Store, tid)

\* the instructor's reply 2 was added while the owner's root post 1 was removed: the add
\* read the cardinality 2 before the remove pruned the owner from the tally and wrote it
\* after the remove had written 1, so postercount is 2 and the tally holds one poster
C36_Witness ==
    /\ AllDone /\ Len(proc) = 2 /\ ~Sequential
    /\ \E i, j \in 1..2 :
        /\ proc[i].op = "add" /\ proc[i].pid = 2 /\ proc[i].posterCount = 2
        /\ proc[j].op = "remove" /\ proc[j].pid = 1 /\ proc[j].posterCount = 1
    /\ Field(Store, 1, "postercount") = 2
    /\ PosterCard(Store, 1) = 1

-----------------------------------------------------------------------------
(* Properties of the posts of a topic *)

\* the root post is in neither reply index
RootOutsideReplies(st, tid) ==
    Field(st, tid, "mainPid") # 0 =>
        /\ ~Member(st, TidKey(tid, ":posts"), Field(st, tid, "mainPid"))
        /\ ~Member(st, TidKey(tid, ":posts:votes"), Field(st, tid, "mainPid"))
\* getPids gives the root post and then the replies, oldest first
RootThenReplies(st, tid) ==
    LET pids == Topics_getPids(st, tid)
        replies == IF Field(st, tid, "mainPid") # 0 THEN Tail(pids) ELSE pids
    IN  /\ Field(st, tid, "mainPid") # 0 => Head(pids) = Field(st, tid, "mainPid")
        /\ Elements(replies) = DOMAIN st.zset[TidKey(tid, ":posts")]
        /\ \A i, j \in 1..Len(replies) :
                i < j => Post(replies[i]).timestamp <= Post(replies[j]).timestamp

\* C37: between the calls of a sequential sequence of addPostToTopic and
\* removePostFromTopic calls, the root post is in neither the reply index nor the
\* vote-ordered reply index of its topic, and getPids returns the root post first, then
\* the reply index in timestamp order, as many pids as the stored postcount says.
C37_GetPidsMatchesPostCount ==
    \A tid \in PostTids :
        /\ RootOutsideReplies(Store, tid)
        /\ RootThenReplies(Store, tid)
        /\ Len(Topics_getPids(Store, tid)) = Field(Store, tid, "postcount")

-----------------------------------------------------------------------------
(* Properties of the batch command *)

\* the call changed nothing and wrote nothing to the system event log
NoEffect(r) == r.st = Store /\ r.log = <<>>

\* C38: doTopicAction checks the whole batch before it acts. With tids that is no array
\* it throws invalid-tid, and with a batch that holds a tid of no topic it throws
\* no-topic, in both cases with no topic of the batch changed and nothing logged; with a
\* valid batch and an action that is no topic tool it returns with no effect; and only
\* delete, restore and purge write to the system event log, one entry for each topic
\* the tool succeeded on.
C38_BatchValidatedFirst ==
    \A action \in BatchActions, uid \in Uids, tids \in Batches :
        LET r == doTopicAction(Store, action, uid, tids)
            missing == \E i \in 1..Len(tids.items) : ~Exists(Store, tids.items[i])
        IN  /\ tids.kind # "array" => r.errors = {"invalid-tid"} /\ NoEffect(r)
            /\ tids.kind = "array" /\ missing => r.errors = {"no-topic"} /\ NoEffect(r)
            /\ tids.kind = "array" /\ ~missing /\ ~IsTool(action) =>
                    r.errors = {} /\ NoEffect(r)
            /\ r.log # <<>> => action \in {"delete", "restore", "purge"}
            /\ \A i \in 1..Len(r.log) :
                    /\ r.log[i].type = "topic-" \o action
                    /\ r.log[i].uid = uid
                    /\ r.log[i].tid \in Elements(tids.items)
\* topic 1 was deleted through the command, which logged it, and topic 2 is purged: a
\* restore of the batch of both is refused whole, a restore of topic 1 alone acts
C38_Witness ==
    /\ Exists(Store, 1) /\ ~Exists(Store, 2)
    /\ \E i \in 1..Len(proc) : proc[i].type = "topic-delete" /\ proc[i].tid = 1
    /\ Field(Store, 1, "deleted") = 1
    /\ doTopicAction(Store, "restore", 1, Batch(<<1, 2>>)).errors = {"no-topic"}
    /\ doTopicAction(Store, "restore", 1, Batch(<<1>>)).st # Store

-----------------------------------------------------------------------------
(* Properties of the role queries *)

\* the argument is the uid of a user who holds one of the roles the query asks for
HoldsRole(c) ==
    /\ c.uid.type = "number"
    /\ c.uid.num > 0
    /\ \/ c.uid.num \in c.roles.admins \cup c.roles.globalMods
       \/ c.fn = "isPrivileged" /\ \E cid \in Cids : <<c.uid.num, cid>> \in c.roles.mods

\* C39: User.isPrivileged(uid) and User.isAdminOrGlobalMod(uid) return true only for
\* a user who holds the role (administrator, global moderator, and for isPrivileged
\* moderator of a category); for uid <= 0 and for an argument of any type that
\* identifies no such user they return false.
C39_TrueOnlyForRoleHolders ==
    \A i \in 1..Len(proc) :
        proc[i].pc = "done" => (proc[i].ret <=> HoldsRole(proc[i]))

=============================================================================
